---- MODULE Spec2Model ----
(***************************************************************************)
(* x-Music Bar: the SABIT recipe engine (lib/recipeEngine), the Input      *)
(* Surface page (XMusicBar), the Display Surface page (ScorePage) and the  *)
(* shared record sabit/current that links them.                            *)
(*                                                                         *)
(* Numbers.  JavaScript numbers are modelled as fixed-point integers with  *)
(* six decimals: the number x is the integer x * FP.  Display values,      *)
(* engine values and millilitres all use this scale.  The catalog's        *)
(* characteristic values have two decimals and are kept in hundredths.     *)
(* Math.exp yields values far beyond the integer range, so its results are *)
(* kept as binary floating-point pairs <<m, e>> standing for               *)
(* m * 2^(e - 28), with 2^28 <= m < 2^29.                                  *)
(***************************************************************************)
EXTENDS Integers, Sequences, FiniteSets, TLC

FP == 10 ^ 6            \* fixed-point scale: 1.0 is FP
CatScale == 10 * 10     \* catalog scale: 1.00 is CatScale

Abs(x) == IF x < 0 THEN -x ELSE x

-----------------------------------------------------------------------------
(* lib/recipeEngine: the catalog                                           *)

\* A catalog of two entries, none of them carbonated.
CatalogWithoutSoda ==
  << [name |-> "Lime Juice",   s |->   5, a |-> 100, b |->   5, i |->  0, t |->  0],
     [name |-> "Simple Syrup", s |-> 100, a |->   0, b |-> 100, i |-> 95, t |-> 10] >>

\* The 15 ingredients in declaration order; values in hundredths.
INGREDIENTS ==
  << [name |-> "Gin (Tanqueray)",   s |->   0, a |->   0, b |->  15, i |-> 95, t |->   0],
     [name |-> "Vodka",             s |->   0, a |->   0, b |->   0, i |-> 80, t |->   0],
     [name |-> "Whiskey (Jameson)", s |->   5, a |->   0, b |->  20, i |-> 80, t |->   0],
     [name |-> "White Rum",         s |->   8, a |->   0, b |->   0, i |-> 80, t |->   0],
     [name |-> "Campari",           s |->  31, a |->   0, b |-> 100, i |-> 50, t |->   0],
     [name |-> "Cinzano Rosso",     s |->  19, a |->  15, b |->  40, i |-> 30, t |->   0],
     [name |-> "Kahlua",            s |->  55, a |->   5, b |->  45, i |-> 40, t |->   0],
     [name |-> "Cointreau",         s |->  31, a |->  10, b |->   5, i |-> 80, t |->   0],
     [name |-> "Lemon Juice",       s |->   5, a |->  95, b |->   5, i |->  0, t |->   0],
     [name |-> "Lime Juice",        s |->   5, a |-> 100, b |->   5, i |->  0, t |->   0],
     [name |-> "Simple Syrup",      s |-> 100, a |->   0, b |->   0, i |->  0, t |->  10],
     [name |-> "Grenadine",         s |->  90, a |->  20, b |->   0, i |->  0, t |->  20],
     [name |-> "Tonic Water",       s |->  12, a |->  20, b |->  45, i |->  0, t |->  80],
     [name |-> "Ginger Ale",        s |->  13, a |->  20, b |->   0, i |->  0, t |->  90],
     [name |-> "Soda",              s |->   0, a |->   0, b |->   0, i |->  0, t |-> 100] >>

NIngredients == Len(INGREDIENTS)

-----------------------------------------------------------------------------
(* Floating-point helpers for Math.exp, + and / on its results             *)

MantBits == 14 + 14
MantOne == 2 ^ MantBits          \* mantissa of 1.0
MantTwo == 2 * MantOne
HalfWord == 2 ^ 14

FloatOne == <<MantOne, 0>>
FloatZero == <<0, 0>>

\* floor(m1 * m2 / 2^28) for mantissas below 2^29, in 14-bit halves so that no
\* intermediate product leaves the integer range.
MulHi(m1, m2) ==
  LET a1 == m1 \div HalfWord
      a0 == m1 % HalfWord
      b1 == m2 \div HalfWord
      b0 == m2 % HalfWord
  IN  a1 * b1 + ((a1 * b0 + a0 * b1) + ((a0 * b0) \div HalfWord)) \div HalfWord

Normalize(m, e) == IF m >= MantTwo THEN <<m \div 2, e + 1>> ELSE <<m, e>>

FloatMul(x, y) == Normalize(MulHi(x[1], y[1]), x[2] + y[2])

\* m shifted right by n bits
ShiftRight(m, n) == IF n > MantBits + 1 THEN 0 ELSE m \div (2 ^ n)

\* x + y, for x, y >= 0
FloatAdd(x, y) ==
  IF x[1] = 0 THEN y
  ELSE IF y[1] = 0 THEN x
  ELSE IF x[2] >= y[2]
       THEN Normalize(x[1] + ShiftRight(y[1], x[2] - y[2]), x[2])
       ELSE Normalize(y[1] + ShiftRight(x[1], y[2] - x[2]), y[2])

\* exp(2^k * 10^-6) for k = 0 .. 25, as <<m, e>>
ExpPow2 ==
  << <<268435724, 0>>, <<268435993, 0>>, <<268436530, 0>>, <<268437603, 0>>,
     <<268439751, 0>>, <<268444046, 0>>, <<268452636, 0>>, <<268469818, 0>>,
     <<268504184, 0>>, <<268572930, 0>>, <<268710475, 0>>, <<268985775, 0>>,
     <<269537223, 0>>, <<270643511, 0>>, <<272869729, 0>>, <<277377251, 0>>,
     <<286616905, 0>>, <<306029805, 0>>, <<348889236, 0>>, <<453456116, 0>>,
     <<383001658, 1>>, <<273231919, 3>>, <<278114087, 6>>, <<288141688, 12>>,
     <<309294583, 24>>, <<356372963, 48>>  >>

RECURSIVE ExpBits(_, _, _)
ExpBits(x, k, acc) ==
  IF x = 0 THEN acc
  ELSE ExpBits(x \div 2, k + 1,
               IF x % 2 = 1 THEN FloatMul(acc, ExpPow2[k]) ELSE acc)

\* Math.exp(x) for a fixed-point x >= 0: the product of the table entries of
\* the bits set in x.
MathExp(x) == ExpBits(x, 1, FloatOne)

\* floor(a * b / c) for 0 <= a <= c < 2^29 and 0 <= b < 2^30, by long
\* multiplication over the bits of b, highest first; q is the quotient and
\* r < c the remainder so far.
RECURSIVE MulDivBits(_, _, _, _, _, _)
MulDivBits(a, b, c, n, q, r) ==
  IF n = 0 THEN q
  ELSE LET r2 == 2 * r + ((b \div (2 ^ (n - 1))) % 2) * a
       IN  IF r2 >= 2 * c THEN MulDivBits(a, b, c, n - 1, 2 * q + 2, r2 - 2 * c)
           ELSE IF r2 >= c THEN MulDivBits(a, b, c, n - 1, 2 * q + 1, r2 - c)
           ELSE MulDivBits(a, b, c, n - 1, 2 * q, r2)

MulDiv(a, b, c) == MulDivBits(a, b, c, 30, 0, 0)


-----------------------------------------------------------------------------
(* lib/recipeEngine: calculateDynamicRecipe and vectorsToSABIT             *)

sigma == 12
V_BASE == 60
V_RANGE == 90
MIN_POUR == 1
DISPLAY_SCALE == 100

\* Number.prototype.toFixed(1): the decimal string with one fractional digit,
\* rounding half away from zero; the string is represented by its number of
\* tenths ("60.9" is 609).
ToFixed1(x) ==
  IF x >= 0 THEN (x + FP \div 20) \div (FP \div 10)
  ELSE -((-x + FP \div 20) \div (FP \div 10))

\* A volume that also grows with Sweetness.
totalVolumeWithSweetness(input) == V_BASE * FP + V_RANGE * input.t + input.s

\* A volume scaled past the long-drink maximum.
totalVolumeOverscaled(input) == V_BASE * FP + (V_RANGE + V_RANGE) * input.t

\* A volume that shrinks as Texture grows.
totalVolumeFalling(input) == (V_BASE + V_RANGE) * FP - V_RANGE * input.t

\* const totalVolume = 60 + (90 * input.t)
totalVolume(input) == V_BASE * FP + V_RANGE * input.t

\* the inner product of the input and an ingredient's vector
\* An inner product that pairs the input's acidity with the ingredient's
\* bitterness and the other way round.
dotProductSwapped(input, ing) ==
  (input.s * ing.s + input.a * ing.b + input.b * ing.a + input.i * ing.i
     + input.t * ing.t) \div CatScale

dotProduct(input, ing) ==
  (input.s * ing.s + input.a * ing.a + input.b * ing.b
     + input.i * ing.i + input.t * ing.t) \div CatScale

Max(x, y) == IF x >= y THEN x ELSE y

\* The array with the elements f[1], ..., f[Len(f)], evaluated once.
Array(f) == f \o <<>>

\* INGREDIENTS.map(ing => ({ name, score: Math.max(0, dotProduct) })) over the
\* module's array as the call finds it
scoresOf(ingredients, input) ==
  Array([k \in 1..Len(ingredients) |->
           [name |-> ingredients[k].name,
            score |-> Max(0, dotProduct(input, ingredients[k]))]])

\* scores: { name, score: Math.max(0, dotProduct) } per ingredient
scores(input) == scoresOf(INGREDIENTS, input)

\* Weights that ignore the scores.
expScoresFlat(sc) == Array([k \in 1..Len(sc) |-> FloatOne])

\* expScores = scores.map(s => Math.exp(s.score * sigma))
expScores(sc) == Array([k \in 1..Len(sc) |-> MathExp(sc[k].score * sigma)])

\* sumExpScores = expScores.reduce((acc, val) => acc + val, 0)
RECURSIVE ReduceAdd(_, _, _)
ReduceAdd(ex, k, acc) ==
  IF k > Len(ex) THEN acc ELSE ReduceAdd(ex, k + 1, FloatAdd(acc, ex[k]))

\* A sum that starts from 1 instead of 0.
sumExpScoresFromOne(ex) == ReduceAdd(ex, 1, FloatOne)

sumExpScores(ex) == ReduceAdd(ex, 1, FloatZero)

\* (expScores[i] / sumExpScores) * totalVolume, in fixed point
Share(w, sum, vol) ==
  LET m == ShiftRight(w[1], sum[2] - w[2])
  IN  IF vol >= 0 THEN MulDiv(m, vol, sum[1]) ELSE -MulDiv(m, -vol, sum[1])

\* scores.map((s, i) => ({ name, ml })) from a scores array: the unfiltered,
\* unrounded amounts
AmountsOf(sc, input) ==
  LET ex  == expScores(sc)
      sum == sumExpScores(ex)
      vol == totalVolume(input)
  IN  Array([k \in 1..Len(sc) |->
               [name |-> sc[k].name, ml |-> Share(ex[k], sum, vol)]])

Amounts(input) == AmountsOf(scores(input), input)

\* No filtering at all.
FilterPourKeepAll(items, k) == items

\* A filter that asks for more than an even share of the smallest volume.
FilterPourAboveEvenShare(items, k) ==
  SelectSeq(items,
            LAMBDA item : item.ml >= (MIN_POUR + V_BASE \div NIngredients) * FP)

\* .filter(item => item.ml >= 1.0)
RECURSIVE FilterPour(_, _)
FilterPour(items, k) ==
  IF k > Len(items) THEN <<>>
  ELSE IF items[k].ml >= MIN_POUR * FP
       THEN <<items[k]>> \o FilterPour(items, k + 1)
       ELSE FilterPour(items, k + 1)

\* .sort((a, b) => b.ml - a.ml): Array.prototype.sort is stable, so an item is
\* placed behind every item that does not compare after it.
\* An unstable placement: an item goes in front of the items it ties with.
RECURSIVE InsertSortedUnstable(_, _)
InsertSortedUnstable(sorted, item) ==
  IF sorted = <<>> THEN <<item>>
  ELSE IF item.ml - Head(sorted).ml >= 0
       THEN <<item>> \o sorted
       ELSE <<Head(sorted)>> \o InsertSortedUnstable(Tail(sorted), item)

\* An ascending placement.
RECURSIVE InsertSortedAscending(_, _)
InsertSortedAscending(sorted, item) ==
  IF sorted = <<>> THEN <<item>>
  ELSE IF item.ml - Head(sorted).ml < 0
       THEN <<item>> \o sorted
       ELSE <<Head(sorted)>> \o InsertSortedAscending(Tail(sorted), item)

RECURSIVE InsertSorted(_, _)
InsertSorted(sorted, item) ==
  IF sorted = <<>> THEN <<item>>
  ELSE IF item.ml - Head(sorted).ml > 0
       THEN <<item>> \o sorted
       ELSE <<Head(sorted)>> \o InsertSorted(Tail(sorted), item)

RECURSIVE SortDesc(_, _, _)
SortDesc(items, k, acc) ==
  IF k > Len(items) THEN acc
  ELSE SortDesc(items, k + 1, InsertSorted(acc, items[k]))

\* A pipeline that rounds the amounts to one decimal before it filters and
\* sorts them.
RecipeRawRoundedFirst(input) ==
  LET am == Amounts(input)
      rounded == Array([k \in 1..Len(am) |->
                          [name |-> am[k].name,
                           ml |-> ToFixed1(am[k].ml) * (FP \div 10)]])
  IN  SortDesc(FilterPour(rounded, 1), 1, <<>>)

\* recipe: the filtered, sorted amounts before formatting
RecipeRaw(input) == SortDesc(FilterPour(Amounts(input), 1), 1, <<>>)

calculateDynamicRecipe(input) ==
  LET raw == RecipeRaw(input)
  IN  [totalVolume |-> ToFixed1(totalVolume(input)),
       recipe |-> Array([k \in 1..Len(raw) |->
                           [name |-> raw[k].name, ml |-> ToFixed1(raw[k].ml)]])]

\* calculateDynamicRecipe as an invocation runs it: INGREDIENTS is the module's
\* array as the invocation finds it, the one thing it reads besides its
\* argument
calculateDynamicRecipeOn(ingredients, input) ==
  LET raw == SortDesc(FilterPour(AmountsOf(scoresOf(ingredients, input), input),
                                 1), 1, <<>>)
  IN  [totalVolume |-> ToFixed1(totalVolume(input)),
       recipe |-> Array([k \in 1..Len(raw) |->
                           [name |-> raw[k].name, ml |-> ToFixed1(raw[k].ml)]])]

\* A conversion that keeps every component within [0,1].
vectorsToSABITClamped(vectors) ==
  LET unit(x) == IF x < 0 THEN 0
                 ELSE IF x > DISPLAY_SCALE * FP THEN FP
                 ELSE x \div DISPLAY_SCALE
  IN  [s |-> unit(vectors.S), a |-> unit(vectors.A), b |-> unit(vectors.B),
       i |-> unit(vectors.I), t |-> unit(vectors.T)]

\* vectorsToSABIT: upper-case display keys to lower-case engine keys, / 100
vectorsToSABIT(vectors) ==
  [s |-> vectors.S \div DISPLAY_SCALE,
   a |-> vectors.A \div DISPLAY_SCALE,
   b |-> vectors.B \div DISPLAY_SCALE,
   i |-> vectors.I \div DISPLAY_SCALE,
   t |-> vectors.T \div DISPLAY_SCALE]

-----------------------------------------------------------------------------
(* State                                                                   *)

VARIABLES
  engineInput,     \* the SABITInput of the latest engine invocation
  engineCalled,    \* whether calculateDynamicRecipe has returned for it
  engineResult,    \* the RecipeResult it returned
  \* a caller of lib/recipeEngine and the module's state
  catalog,         \* the module-level INGREDIENTS array
  callerVectors,   \* the caller's VectorValues object
  callerInput,     \* the caller's SABITInput object
  callLog,         \* the calls made so far: function, argument, return value
  \* Input Surface (XMusicBar with its InteractiveRadar)
  inputMounted,    \* the effect's `mounted` flag
  inputInit,       \* initFirebase: "pending", "done" or "failed"
  firebaseRef,     \* firebaseRef.current is set
  inputVectors,    \* vectors
  dragging,        \* the radar's dragged axis, or "none"
  clock,           \* the latest reading of Date.now()
  changes,         \* how many times the radar has called onChange
  \* channel
  outbox,          \* writes the Input Surface issued, not yet at the server
  server,          \* the record at sabit/current and the number of the write
  inbox,           \* per Display Surface: snapshots not yet handed over
  \* Display Surfaces (ScorePage)
  mounted,         \* the effect's `mounted` flag
  displayInit,     \* initFirebase: "pending", "done" or "failed"
  subscribed,      \* the listeners are registered (unsubscribeSabit is set)
  displayVectors,  \* vectors
  lastUpdated,     \* lastUpdated, 0 for null
  error,           \* error, "" for null
  shown,           \* the number of the write whose snapshot was applied last
  isConnected,     \* isConnected of ScorePage
  inputListeners,  \* the listeners XMusicBar has registered and not removed
  \* the sync hooks useSyncedVectorsWrite and useSyncedVectorsRead
  hookMounted,     \* the component that uses the hook is mounted
  hookEffect,      \* the hook's effect: "pending", "done" or "failed"
  hookListeners,   \* the listeners the hook has registered and not removed
  hookInbox,       \* snapshots not yet handed to useSyncedVectorsRead
  hookVectors,     \* vectors of each hook
  hookOutbox,      \* writes useSyncedVectorsWrite issued, not yet settled
  hookLastUpdated, \* lastUpdated of useSyncedVectorsRead, 0 for null
  hookConnected,   \* isConnected of each hook
  hookError,       \* error of each hook, "" for null
  \* the components of fluidic-core.tsx: FluidicCore and RecipeDisplay
  coreVectors,     \* the vectors prop
  coreMounted,     \* FluidicCore is mounted
  effectPending,   \* a render was committed whose effect has not run yet
  hasCleanup,      \* the effect that ran last returned its cleanup
  coreSize,        \* the width of the container
  pendingFrames,   \* the browser's scheduled animation frame callbacks
  cancelledFrames, \* the frame requests that were cancelled
  nextFrame,       \* the id the next requestAnimationFrame returns
  animationRef,    \* animationRef.current
  timeRef          \* timeRef.current, in steps of 0.016

callVars == <<catalog, callerVectors, callerInput, callLog>>
engineVars == <<engineInput, engineCalled, engineResult, callVars>>
inputVars ==
  <<inputMounted, inputInit, firebaseRef, inputVectors, dragging, clock,
    changes>>
channelVars == <<outbox, server, inbox>>
displayVars ==
  <<mounted, displayInit, subscribed, displayVectors, lastUpdated, error,
    shown>>
connectionVars == <<isConnected, inputListeners>>
hookVars ==
  <<hookMounted, hookEffect, hookListeners, hookInbox, hookVectors, hookOutbox,
    hookLastUpdated, hookConnected, hookError>>
coreVars ==
  <<coreVectors, coreMounted, effectPending, hasCleanup, coreSize,
    pendingFrames, cancelledFrames, nextFrame, animationRef, timeRef>>
lifecycleVars == <<connectionVars, hookVars, coreVars>>
systemVars == <<inputVars, channelVars, displayVars, lifecycleVars>>
vars == <<engineVars, systemVars>>

SABIT(s, a, b, i, t) == [s |-> s, a |-> a, b |-> b, i |-> i, t |-> t]

NoResult == [totalVolume |-> 0, recipe |-> <<>>]

-----------------------------------------------------------------------------
(* The two surfaces and the channel at construction                        *)

Displays == {"score1", "score2"}
WriteHook == "useSyncedVectorsWrite"
ReadHook == "useSyncedVectorsRead"
Hooks == {WriteHook, ReadHook}
Keys == {"S", "A", "B", "I", "T"}

\* DEFAULT_VALUES of both pages
DEFAULT_VALUES == [S |-> 0, A |-> 0, B |-> 0, I |-> 0, T |-> 0]

\* snapshot.val() of a key that holds nothing
NoRecord == [null |-> TRUE]
IsNull(data) == "null" \in DOMAIN data

\* A record an earlier session of the Input Surface left at sabit/current.
PreviousRecord ==
  [S |-> FP, A |-> 0, B |-> FP \div 2, I |-> 0, T |-> 0, timestamp |-> 1]

\* A record another writer left there, with three axis fields and the timestamp
\* missing.
PartialRecord == [S |-> FP \div 2, T |-> FP]

InitialRecords == {NoRecord, PreviousRecord, PartialRecord}

\* The engine module loaded, and a caller that has made no call yet.
Loaded ==
  /\ catalog = INGREDIENTS
  /\ callerVectors = DEFAULT_VALUES
  /\ callerInput = SABIT(0, 0, 0, 0, 0)
  /\ callLog = <<>>

\* The widths of the container of FluidicCore: collapsed, or 300 pixels.
CoreSizes == {0, 300}

\* Both pages rendered for the first time, their initFirebase() pending.
Constructed(rec) ==
  /\ inputMounted = TRUE
  /\ inputInit = "pending"
  /\ firebaseRef = FALSE
  /\ inputVectors = DEFAULT_VALUES
  /\ dragging = "none"
  /\ clock = 1
  /\ changes = 0
  /\ outbox = <<>>
  /\ server = [data |-> rec, seq |-> 0]
  /\ inbox = [d \in Displays |-> <<>>]
  /\ mounted = [d \in Displays |-> TRUE]
  /\ displayInit = [d \in Displays |-> "pending"]
  /\ subscribed = [d \in Displays |-> {}]
  /\ displayVectors = [d \in Displays |-> DEFAULT_VALUES]
  /\ lastUpdated = [d \in Displays |-> 0]
  /\ error = [d \in Displays |-> ""]
  /\ isConnected = [d \in Displays |-> FALSE]
  /\ inputListeners = {}
  /\ hookMounted = [h \in Hooks |-> TRUE]
  /\ hookEffect = [h \in Hooks |-> "pending"]
  /\ hookListeners = [h \in Hooks |-> {}]
  /\ hookInbox = <<>>
  /\ hookVectors = [h \in Hooks |-> DEFAULT_VALUES]
  /\ hookOutbox = <<>>
  /\ hookLastUpdated = 0
  /\ hookConnected = [h \in Hooks |-> FALSE]
  /\ hookError = [h \in Hooks |-> ""]
  /\ coreVectors = DEFAULT_VALUES
  /\ coreMounted = TRUE
  /\ effectPending = TRUE
  /\ hasCleanup = FALSE
  /\ coreSize = 300
  /\ pendingFrames = {}
  /\ cancelledFrames = {}
  /\ nextFrame = 1
  /\ animationRef = 0
  /\ timeRef = 0
  /\ shown = [d \in Displays |-> 0]

-----------------------------------------------------------------------------
(* The engine as a pure function: callers invoke it on inputs of a bounded *)
(* set                                                                     *)

InRangeValues == {0, FP \div 2, FP}
OutOfRangeValues == {-FP, 2 * FP}
EndValues == {0, FP}

InRange(input) ==
  \A x \in {input.s, input.a, input.b, input.i, input.t} : 0 <= x /\ x <= FP

\* The nonzero products of the inner product, in the order they are added, each
\* as its pair of factors.
Terms(input, ing) ==
  SelectSeq(<<<<input.s, ing.s>>, <<input.a, ing.a>>, <<input.b, ing.b>>,
              <<input.i, ing.i>>, <<input.t, ing.t>>>>,
            LAMBDA p : p[1] * p[2] # 0)

\* Two inner products are computed by the same floating-point arithmetic: the
\* same nonzero products in the same order, or two products swapped.
SameArithmetic(t1, t2) ==
  \/ t1 = t2
  \/ Len(t1) = 2 /\ Len(t2) = 2 /\ t1[1] = t2[2] /\ t1[2] = t2[1]

\* Two ingredients whose amounts are poured have the same positive inner product
\* by different arithmetic.  The code then orders them by the rounding of the
\* IEEE-754 inner products, which six-decimal fixed point does not carry, so
\* such inputs are left out of the inputs drawn below.
RoundingDecides(input) ==
  LET am == Amounts(input)
  IN  \E j, k \in 1..NIngredients :
        /\ j < k
        /\ dotProduct(input, INGREDIENTS[j]) > 0
        /\ dotProduct(input, INGREDIENTS[j]) = dotProduct(input, INGREDIENTS[k])
        /\ ~SameArithmetic(Terms(input, INGREDIENTS[j]), Terms(input, INGREDIENTS[k]))
        /\ am[j].ml >= MIN_POUR * FP

\* Every component in range, or one component out of range and the others at
\* an end of the range.
Candidates ==
  [s : InRangeValues, a : InRangeValues, b : InRangeValues,
   i : InRangeValues, t : InRangeValues]
  \cup {[in EXCEPT ![x] = v] :
          in \in [s : EndValues, a : EndValues, b : EndValues,
                  i : EndValues, t : EndValues],
          x \in {"s", "a", "b", "i", "t"}, v \in OutOfRangeValues}

EngineInputs == {in : in \in {c \in Candidates : ~RoundingDecides(c)}}

InitEngine ==
  /\ engineInput \in EngineInputs
  /\ engineCalled = FALSE
  /\ engineResult = NoResult
  /\ Loaded
  /\ Constructed(NoRecord)

\* const result = calculateDynamicRecipe(input)
Calculate ==
  /\ ~engineCalled
  /\ engineCalled' = TRUE
  /\ engineResult' = calculateDynamicRecipe(engineInput)
  /\ UNCHANGED <<engineInput, callVars, systemVars>>

\* a further invocation, on the input with one component changed
Recalculate ==
  /\ engineCalled
  /\ \E x \in {"s", "a", "b", "i", "t"}, v \in EndValues :
        /\ engineInput[x] # v
        /\ [engineInput EXCEPT ![x] = v] \in EngineInputs
        /\ engineInput' = [engineInput EXCEPT ![x] = v]
  /\ engineResult' = calculateDynamicRecipe(engineInput')
  /\ UNCHANGED <<engineCalled, callVars, systemVars>>

NextEngine == Calculate \/ Recalculate

SpecEngine == InitEngine /\ [][NextEngine]_vars

-----------------------------------------------------------------------------
(* A caller of the engine module: a component that holds a display vector, *)
(* converts it and asks for the recipe, any number of times                *)

MaxCalls == 3

\* The display vectors the caller holds: all zeros, all 100, one with five
\* different components of which two are outside 0-100, and one with Texture
\* below 0.
CallerVectors ==
  { DEFAULT_VALUES,
    [S |-> 100 * FP, A |-> 100 * FP, B |-> 100 * FP, I |-> 100 * FP,
     T |-> 100 * FP],
    [S |-> 250 * FP, A |-> 0 - 100 * FP, B |-> 0, I |-> 50 * FP, T |-> 100 * FP],
    [S |-> 0, A |-> 0, B |-> 0, I |-> 0, T |-> 0 - 100 * FP] }

\* the caller's state is replaced by a new vector object
NewVectors(v) ==
  /\ v # callerVectors
  /\ callerVectors' = v
  /\ UNCHANGED <<catalog, callerInput, callLog, engineInput, engineCalled,
                 engineResult, systemVars>>

\* const sabitInput = vectorsToSABIT(vectors)
CallVectorsToSABIT ==
  /\ Len(callLog) < MaxCalls
  /\ callerInput' = vectorsToSABIT(callerVectors)
  /\ callLog' = Append(callLog, [fn |-> "vectorsToSABIT",
                                  arg |-> callerVectors,
                                  ret |-> callerInput'])
  /\ UNCHANGED <<catalog, callerVectors, engineInput, engineCalled,
                 engineResult, systemVars>>

\* An invocation that filters the module's array itself: the ingredients it
\* did not pour are gone from INGREDIENTS afterwards.
CallCalculateFilteringCatalog ==
  /\ Len(callLog) < MaxCalls
  /\ callerInput \in EngineInputs
  /\ LET ret == calculateDynamicRecipeOn(catalog, callerInput)
     IN  /\ callLog' = Append(callLog,
                              [fn |-> "calculateDynamicRecipe",
                               arg |-> callerInput,
                               ret |-> ret])
         /\ catalog' = SelectSeq(catalog,
                                 LAMBDA ing :
                                   \E k \in 1..Len(ret.recipe) :
                                      ret.recipe[k].name = ing.name)
  /\ UNCHANGED <<callerVectors, callerInput, engineInput,
                 engineCalled, engineResult, systemVars>>

\* An invocation that reorders the catalog in place.
CallCalculateInPlace ==
  /\ Len(callLog) < MaxCalls
  /\ callerInput \in EngineInputs
  /\ callLog' = Append(callLog,
                       [fn |-> "calculateDynamicRecipe",
                        arg |-> callerInput,
                        ret |-> calculateDynamicRecipeOn(catalog, callerInput)])
  /\ catalog' = [k \in 1..NIngredients |-> INGREDIENTS[NIngredients + 1 - k]]
  /\ UNCHANGED <<callerVectors, callerInput, engineInput, engineCalled,
                 engineResult, systemVars>>

\* return calculateDynamicRecipe(sabitInput): the invocation reads its argument
\* and the module's INGREDIENTS array, and assigns to neither
CallCalculateDynamicRecipe ==
  /\ Len(callLog) < MaxCalls
  /\ callerInput \in EngineInputs
  /\ callLog' = Append(callLog,
                       [fn |-> "calculateDynamicRecipe",
                        arg |-> callerInput,
                        ret |-> calculateDynamicRecipeOn(catalog, callerInput)])
  /\ UNCHANGED <<catalog, callerVectors, callerInput, engineInput,
                 engineCalled, engineResult, systemVars>>

InitCalls ==
  /\ engineInput = SABIT(0, 0, 0, 0, 0)
  /\ engineCalled = FALSE
  /\ engineResult = NoResult
  /\ Loaded
  /\ Constructed(NoRecord)

NextCalls ==
  \/ \E v \in CallerVectors : NewVectors(v)
  \/ CallVectorsToSABIT
  \/ CallCalculateDynamicRecipe

SpecCalls == InitCalls /\ [][NextCalls]_vars

-----------------------------------------------------------------------------
(* Input Surface: XMusicBar and its InteractiveRadar                       *)

MaxChanges == 2

\* The handles the pointer goes down on.
DraggedKeys == {"S", "T"}

\* dimensions start at 300 x 300; maxRadius = Math.min(width, height) * 0.32
maxRadius == (300 * 32) \div 100

\* What Date.now() returns: the wall clock in milliseconds, so a reading may
\* equal the one before it (two moves within a millisecond), lie after it, or
\* lie before it (the clock was set back in between).
ClockReadings == {1, 2}

\* The pointer positions tried, as the projection on the dragged axis in
\* pixels: short of the centre, half way out, beyond the end of the axis.
Projections == {0 - maxRadius \div 4, maxRadius \div 2, maxRadius + maxRadius \div 2}

\* A value that is rounded but not clamped.
calculateValueUnclamped(projection) ==
  LET hundredths == IF projection >= 0
                    THEN (2 * 100 * projection + maxRadius) \div (2 * maxRadius)
                    ELSE -((2 * 100 * (-projection) + maxRadius) \div (2 * maxRadius))
  IN  hundredths * (FP \div 100)

\* Math.max(0, Math.min(1, projection / maxRadius)), then
\* Math.round(normalizedValue * 100) / 100
calculateValueFromPosition(projection) ==
  LET clamped == IF projection < 0 THEN 0
                 ELSE IF projection > maxRadius THEN maxRadius
                 ELSE projection
      hundredths == (2 * 100 * clamped + maxRadius) \div (2 * maxRadius)
  IN  hundredths * (FP \div 100)

\* A record of the default vector.
WrittenRecordStale(newVectors, now) ==
  [S |-> 0, A |-> 0, B |-> 0, I |-> 0, T |-> 0, timestamp |-> now]

\* A writer that sends Texture and the timestamp only.
WrittenRecordPartial(newVectors, now) ==
  [T |-> newVectors.T, timestamp |-> now]

\* { ...newVectors, timestamp: Date.now() }
WrittenRecord(newVectors, now) ==
  [S |-> newVectors.S, A |-> newVectors.A, B |-> newVectors.B,
   I |-> newVectors.I, T |-> newVectors.T, timestamp |-> now]

\* initFirebase() of XMusicBar runs to its end
InputInitDone ==
  /\ inputInit = "pending"
  /\ inputInit' = "done"
  /\ firebaseRef' = IF inputMounted THEN TRUE ELSE firebaseRef
  /\ inputListeners' = IF inputMounted THEN {"connected"} ELSE inputListeners
  /\ UNCHANGED <<inputMounted, inputVectors, dragging, clock, changes,
                 channelVars, displayVars, engineVars, isConnected, hookVars,
                 coreVars>>

\* initFirebase() of XMusicBar throws: console.error only
InputInitFail ==
  /\ inputInit = "pending"
  /\ inputInit' = "failed"
  /\ UNCHANGED <<inputMounted, firebaseRef, inputVectors, dragging, clock,
                 changes, channelVars, displayVars, engineVars, lifecycleVars>>

\* the effect's cleanup: mounted = false, and nothing else
InputUnmount ==
  /\ inputMounted
  /\ inputMounted' = FALSE
  /\ UNCHANGED <<inputInit, firebaseRef, inputVectors, dragging, clock,
                 changes, channelVars, displayVars, engineVars, lifecycleVars>>

\* handlePointerDown
PointerDown(key) ==
  /\ inputMounted
  /\ dragging' = key
  /\ UNCHANGED <<inputMounted, inputInit, firebaseRef, inputVectors, clock,
                 changes, channelVars, displayVars, engineVars, lifecycleVars>>

\* handlePointerUp, on pointer-up and on pointer-leave
PointerUp ==
  /\ inputMounted
  /\ dragging' = "none"
  /\ UNCHANGED <<inputMounted, inputInit, firebaseRef, inputVectors, clock,
                 changes, channelVars, displayVars, engineVars, lifecycleVars>>

\* A move that emits the default vector with the dragged axis set.
PointerMoveFromDefaults(projection) ==
  /\ inputMounted
  /\ dragging # "none"
  /\ changes < MaxChanges
  /\ changes' = changes + 1
  /\ LET newValue == calculateValueFromPosition(projection)
         newVectors == [DEFAULT_VALUES EXCEPT ![dragging] = newValue]
     IN  /\ inputVectors' = newVectors
         /\ IF firebaseRef
            THEN \E now \in ClockReadings :
                    /\ clock' = now
                    /\ outbox' = Append(outbox,
                                        [data |-> WrittenRecord(newVectors, now),
                                         seq |-> server.seq + Len(outbox) + 1])
            ELSE UNCHANGED <<clock, outbox>>
  /\ UNCHANGED <<inputMounted, inputInit, firebaseRef, dragging, server,
                 inbox, displayVars, engineVars, lifecycleVars>>

\* handlePointerMove while dragging: onChange({...vectors, [dragging]: newValue})
\* which is setVectors of XMusicBar: the local state always, the write only
\* when firebaseRef.current is set, with a reading of Date.now() as its
\* timestamp.
PointerMove(projection) ==
  /\ inputMounted
  /\ dragging # "none"
  /\ changes < MaxChanges
  /\ changes' = changes + 1
  /\ LET newValue == calculateValueFromPosition(projection)
         newVectors == [inputVectors EXCEPT ![dragging] = newValue]
     IN  /\ inputVectors' = newVectors
         /\ IF firebaseRef
            THEN \E now \in ClockReadings :
                    /\ clock' = now
                    /\ outbox' = Append(outbox,
                                        [data |-> WrittenRecord(newVectors, now),
                                         seq |-> server.seq + Len(outbox) + 1])
            ELSE UNCHANGED <<clock, outbox>>
  /\ UNCHANGED <<inputMounted, inputInit, firebaseRef, dragging, server,
                 inbox, displayVars, engineVars, lifecycleVars>>

-----------------------------------------------------------------------------
(* The channel: the Realtime Database key sabit/current                    *)

\* The oldest write in flight reaches the server, which stores it in place of
\* the record and sends the new snapshot to every listener on the key.
ServerApply ==
  /\ outbox # <<>>
  /\ server' = Head(outbox)
  /\ outbox' = Tail(outbox)
  /\ inbox' = [d \in Displays |->
                 IF "sabit" \in subscribed[d]
                 THEN Append(inbox[d], Head(outbox))
                 ELSE inbox[d]]
  /\ hookInbox' = IF "sabit" \in hookListeners[ReadHook]
                  THEN Append(hookInbox, Head(outbox))
                  ELSE hookInbox
  /\ UNCHANGED <<inputVars, displayVars, engineVars, connectionVars,
                 hookMounted, hookEffect, hookListeners, hookVectors,
                 hookLastUpdated, hookConnected, hookError,
                 hookOutbox, coreVars>>

-----------------------------------------------------------------------------
(* Display Surface: ScorePage                                              *)

\* A reader that takes 1.0 for a missing field.
FieldDefaultOne(data, key) == IF key \in DOMAIN data THEN data[key] ELSE FP

\* A reader that takes the default for every field.
FieldDefault(data, key) == 0

\* A reader that adds the record's timestamp into Texture.
FieldWithTimestamp(data, key) ==
  IF key \notin DOMAIN data THEN 0
  ELSE IF key = "T" /\ "timestamp" \in DOMAIN data
       THEN data[key] + data.timestamp
       ELSE data[key]

\* data.S ?? 0
Field(data, key) == IF key \in DOMAIN data THEN data[key] ELSE 0

\* An initFirebase() that registers its listeners without looking at `mounted`.
DisplayInitDoneUnchecked(d) ==
  /\ displayInit[d] = "pending"
  /\ displayInit' = [displayInit EXCEPT ![d] = "done"]
  /\ subscribed' = [subscribed EXCEPT ![d] = {"sabit", "connected"}]
  /\ inbox' = [inbox EXCEPT ![d] = <<server>>]
  /\ UNCHANGED <<mounted, displayVectors, lastUpdated, error,
                 shown, outbox, server, inputVars, engineVars, lifecycleVars>>

\* initFirebase() of ScorePage runs to its end: nothing when no longer mounted,
\* otherwise both listeners are registered and the key's current snapshot is
\* on its way to the new listener.
DisplayInitDone(d) ==
  /\ displayInit[d] = "pending"
  /\ displayInit' = [displayInit EXCEPT ![d] = "done"]
  /\ IF mounted[d]
     THEN /\ subscribed' = [subscribed EXCEPT ![d] = {"sabit", "connected"}]
          /\ inbox' = [inbox EXCEPT ![d] = <<server>>]
     ELSE UNCHANGED <<subscribed, inbox>>
  /\ UNCHANGED <<mounted, displayVectors, lastUpdated, error,
                 shown, outbox, server, inputVars, engineVars, lifecycleVars>>

\* initFirebase() of ScorePage throws
DisplayInitFail(d) ==
  /\ displayInit[d] = "pending"
  /\ displayInit' = [displayInit EXCEPT ![d] = "failed"]
  /\ error' = [error EXCEPT ![d] = IF mounted[d] THEN "init error" ELSE @]
  /\ UNCHANGED <<mounted, subscribed, displayVectors, lastUpdated,
                 shown, channelVars, inputVars, engineVars, lifecycleVars>>

\* the onValue callback on sabit/current
Deliver(d) ==
  /\ "sabit" \in subscribed[d]
  /\ inbox[d] # <<>>
  /\ inbox' = [inbox EXCEPT ![d] = Tail(@)]
  /\ LET data == Head(inbox[d]).data
     IN  IF ~IsNull(data) /\ mounted[d]
         THEN /\ displayVectors' =
                   [displayVectors EXCEPT ![d] =
                      [S |-> Field(data, "S"), A |-> Field(data, "A"),
                       B |-> Field(data, "B"), I |-> Field(data, "I"),
                       T |-> Field(data, "T")]]
              /\ lastUpdated' =
                   [lastUpdated EXCEPT ![d] =
                      IF Field(data, "timestamp") # 0
                      THEN Field(data, "timestamp") ELSE @]
              /\ shown' = [shown EXCEPT ![d] = Head(inbox[d]).seq]
         ELSE UNCHANGED <<displayVectors, lastUpdated, shown>>
  /\ UNCHANGED <<mounted, displayInit, subscribed, error, outbox,
                 server, inputVars, engineVars, lifecycleVars>>

\* the effect's cleanup: mounted = false, off(sabitRef), off(connectedRef)
DisplayUnmount(d) ==
  /\ mounted[d]
  /\ mounted' = [mounted EXCEPT ![d] = FALSE]
  /\ subscribed' = [subscribed EXCEPT ![d] = {}]
  /\ inbox' = [inbox EXCEPT ![d] = <<>>]
  /\ UNCHANGED <<displayInit, displayVectors, lastUpdated, error,
                 shown, outbox, server, inputVars, engineVars, lifecycleVars>>

\* const recipe = useMemo(() => calculateDynamicRecipe(vectorsToSABIT(vectors)))
recipe(d) == calculateDynamicRecipe(vectorsToSABIT(displayVectors[d]))

Init ==
  /\ engineInput = SABIT(0, 0, 0, 0, 0)
  /\ engineCalled = FALSE
  /\ engineResult = NoResult
  /\ Loaded
  /\ \E rec \in InitialRecords : Constructed(rec)

Next ==
  \/ InputInitDone
  \/ InputInitFail
  \/ InputUnmount
  \/ \E key \in DraggedKeys : PointerDown(key)
  \/ PointerUp
  \/ \E projection \in Projections : PointerMove(projection)
  \/ ServerApply
  \/ \E d \in Displays : DisplayInitDone(d)
  \/ \E d \in Displays : DisplayInitFail(d)
  \/ \E d \in Displays : Deliver(d)
  \/ \E d \in Displays : DisplayUnmount(d)

Spec == Init /\ [][Next]_vars

-----------------------------------------------------------------------------
(* A Display Surface with its connection listener, its read-error callback *)
(* and records set at sabit/current by any writer                          *)

MaxWrites == 2

\* A record a writer sets after the first.
LaterRecord ==
  [S |-> 0, A |-> FP, B |-> 0, I |-> FP \div 2, T |-> FP \div 2, timestamp |-> 2]

\* What a writer can leave at the key: a record, or nothing (the key removed).
ChannelRecords == {NoRecord, PreviousRecord, LaterRecord}

\* A writer sets or removes the record; the server sends the new snapshot to
\* every listener on the key.
ChannelSet(rec) ==
  /\ outbox = <<>>
  /\ server.seq < MaxWrites
  /\ server' = [data |-> rec, seq |-> server.seq + 1]
  /\ inbox' = [d \in Displays |->
                 IF "sabit" \in subscribed[d]
                 THEN Append(inbox[d], server')
                 ELSE inbox[d]]
  /\ hookInbox' = IF "sabit" \in hookListeners[ReadHook]
                  THEN Append(hookInbox, server')
                  ELSE hookInbox
  /\ UNCHANGED <<outbox, inputVars, displayVars, engineVars, connectionVars,
                 hookMounted, hookEffect, hookListeners, hookVectors,
                 hookLastUpdated, hookConnected, hookError,
                 hookOutbox, coreVars>>

\* the onValue callback on .info/connected of ScorePage
ConnectedChange(d, val) ==
  /\ "connected" \in subscribed[d]
  /\ IF mounted[d]
     THEN /\ isConnected' = [isConnected EXCEPT ![d] = val]
          /\ error' = [error EXCEPT ![d] = IF val THEN "" ELSE @]
     ELSE UNCHANGED <<isConnected, error>>
  /\ UNCHANGED <<mounted, displayInit, subscribed, displayVectors, lastUpdated,
                 shown, inputListeners, hookVars, channelVars, inputVars,
                 engineVars,
                 coreVars>>

\* the error callback of the listener on sabit/current of ScorePage
ReadError(d) ==
  /\ "sabit" \in subscribed[d]
  /\ error' = [error EXCEPT ![d] = IF mounted[d] THEN "read error" ELSE @]
  /\ UNCHANGED <<mounted, displayInit, subscribed, displayVectors, lastUpdated,
                 shown, lifecycleVars, channelVars, inputVars, engineVars>>

NextDisplay ==
  \/ \E rec \in ChannelRecords : ChannelSet(rec)
  \/ \E d \in Displays : DisplayInitDone(d)
  \/ \E d \in Displays : DisplayInitFail(d)
  \/ \E d \in Displays : Deliver(d)
  \/ \E d \in Displays : DisplayUnmount(d)
  \/ \E d \in Displays, val \in BOOLEAN : ConnectedChange(d, val)
  \/ \E d \in Displays : ReadError(d)

SpecDisplay == Init /\ [][NextDisplay]_vars

-----------------------------------------------------------------------------
(* The sync hooks: useSyncedVectorsWrite and useSyncedVectorsRead          *)

\* The listeners a hook's effect registers.
ListenersOf(h) == IF h = ReadHook THEN {"sabit", "connected"} ELSE {"connected"}

\* A reader that takes the defaults when the snapshot is empty.
HookDeliverResetting ==
  /\ "sabit" \in hookListeners[ReadHook]
  /\ hookInbox # <<>>
  /\ hookInbox' = Tail(hookInbox)
  /\ LET data == Head(hookInbox).data
     IN  IF ~IsNull(data)
         THEN /\ hookVectors' = [hookVectors EXCEPT ![ReadHook] =
                                   [key \in Keys |-> Field(data, key)]]
              /\ hookLastUpdated' = IF Field(data, "timestamp") # 0
                                    THEN Field(data, "timestamp")
                                    ELSE hookLastUpdated
         ELSE /\ hookVectors' = [hookVectors EXCEPT ![ReadHook] = DEFAULT_VALUES]
              /\ hookLastUpdated' = 0
  /\ UNCHANGED <<hookMounted, hookEffect, hookListeners, hookConnected,
                 hookError, connectionVars, inputVars, outbox, server, inbox,
                 displayVars, engineVars,
                 hookOutbox, coreVars>>

\* the effect runs to its end: dbRef.current is set, the listeners are
\* registered, and the current snapshot of sabit/current is on its way to the
\* read hook's listener
HookEffect(h) ==
  /\ hookMounted[h]
  /\ hookEffect[h] = "pending"
  /\ hookEffect' = [hookEffect EXCEPT ![h] = "done"]
  /\ hookListeners' = [hookListeners EXCEPT ![h] = ListenersOf(h)]
  /\ hookInbox' = IF h = ReadHook THEN <<server>> ELSE hookInbox
  /\ UNCHANGED <<hookMounted, hookVectors, hookLastUpdated, hookConnected,
                 hookError, connectionVars, inputVars, channelVars,
                 displayVars, engineVars,
                 hookOutbox, coreVars>>

\* getFirebaseDatabase() throws: setError, and the effect returns no cleanup
HookEffectFail(h) ==
  /\ hookMounted[h]
  /\ hookEffect[h] = "pending"
  /\ hookEffect' = [hookEffect EXCEPT ![h] = "failed"]
  /\ hookError' = [hookError EXCEPT ![h] = "init error"]
  /\ UNCHANGED <<hookMounted, hookListeners, hookInbox, hookVectors,
                 hookLastUpdated, hookConnected, connectionVars, inputVars,
                 channelVars, displayVars, engineVars,
                 hookOutbox, coreVars>>

\* the onValue callback on sabit/current of useSyncedVectorsRead
HookDeliver ==
  /\ "sabit" \in hookListeners[ReadHook]
  /\ hookInbox # <<>>
  /\ hookInbox' = Tail(hookInbox)
  /\ LET data == Head(hookInbox).data
     IN  IF ~IsNull(data)
         THEN /\ hookVectors' = [hookVectors EXCEPT ![ReadHook] =
                                   [key \in Keys |-> Field(data, key)]]
              /\ hookLastUpdated' = IF Field(data, "timestamp") # 0
                                    THEN Field(data, "timestamp")
                                    ELSE hookLastUpdated
         ELSE UNCHANGED <<hookVectors, hookLastUpdated>>
  /\ UNCHANGED <<hookMounted, hookEffect, hookListeners, hookConnected,
                 hookError, connectionVars, inputVars, outbox, server, inbox,
                 displayVars, engineVars,
                 hookOutbox, coreVars>>

\* the onValue callback on .info/connected of either hook
HookConnectedChange(h, val) ==
  /\ "connected" \in hookListeners[h]
  /\ hookConnected' = [hookConnected EXCEPT ![h] = val]
  /\ hookError' = [hookError EXCEPT ![h] = IF val THEN "" ELSE @]
  /\ UNCHANGED <<hookMounted, hookEffect, hookListeners, hookInbox,
                 hookVectors, hookLastUpdated, connectionVars, inputVars,
                 channelVars, displayVars, engineVars,
                 hookOutbox, coreVars>>

\* the error callback of the listener on sabit/current of useSyncedVectorsRead
HookReadError ==
  /\ "sabit" \in hookListeners[ReadHook]
  /\ hookError' = [hookError EXCEPT ![ReadHook] = "read error"]
  /\ UNCHANGED <<hookMounted, hookEffect, hookListeners, hookInbox,
                 hookVectors, hookLastUpdated, hookConnected, connectionVars,
                 inputVars, channelVars, displayVars, engineVars,
                 hookOutbox, coreVars>>

\* the component that uses the hook unmounts: the cleanup the effect returned
\* calls off() on every reference it listened on; an effect that threw returned
\* no cleanup and had registered nothing
HookUnmount(h) ==
  /\ hookMounted[h]
  /\ hookEffect[h] # "pending"
  /\ hookMounted' = [hookMounted EXCEPT ![h] = FALSE]
  /\ hookListeners' = [hookListeners EXCEPT ![h] = {}]
  /\ hookInbox' = IF h = ReadHook THEN <<>> ELSE hookInbox
  /\ UNCHANGED <<hookEffect, hookVectors, hookLastUpdated, hookConnected,
                 hookError, connectionVars, inputVars, channelVars,
                 displayVars, engineVars,
                 hookOutbox, coreVars>>

\* The vector a component hands to setVectors of useSyncedVectorsWrite.
HookWrites == {[DEFAULT_VALUES EXCEPT !.S = FP]}

\* setVectors of useSyncedVectorsWrite: setVectorsLocal always; nothing more
\* while dbRef.current is null (the effect has not set it); otherwise either
\* ref() throws and the catch sets the error, or set() is called with the
\* vector and a reading of Date.now()
HookSetVectors(newVectors, refThrows) ==
  /\ hookMounted[WriteHook]
  /\ hookVectors' = [hookVectors EXCEPT ![WriteHook] = newVectors]
  /\ IF hookEffect[WriteHook] # "done"
     THEN UNCHANGED <<hookOutbox, hookError>>
     ELSE IF refThrows
          THEN /\ hookError' = [hookError EXCEPT ![WriteHook] = "init error"]
               /\ UNCHANGED hookOutbox
          ELSE /\ server.seq + Len(hookOutbox) < MaxWrites
               /\ \E now \in ClockReadings :
                     hookOutbox' =
                       Append(hookOutbox, WrittenRecord(newVectors, now))
               /\ UNCHANGED hookError
  /\ UNCHANGED <<hookMounted, hookEffect, hookListeners, hookInbox,
                 hookLastUpdated, hookConnected, connectionVars, inputVars,
                 channelVars, displayVars, engineVars, coreVars>>

\* The oldest write of the hook reaches the server, which stores it in place
\* of the record and sends the new snapshot to every listener on the key.
HookWriteApply ==
  /\ hookOutbox # <<>>
  /\ outbox = <<>>
  /\ hookOutbox' = Tail(hookOutbox)
  /\ server' = [data |-> Head(hookOutbox), seq |-> server.seq + 1]
  /\ inbox' = [d \in Displays |->
                 IF "sabit" \in subscribed[d]
                 THEN Append(inbox[d], server')
                 ELSE inbox[d]]
  /\ hookInbox' = IF "sabit" \in hookListeners[ReadHook]
                  THEN Append(hookInbox, server')
                  ELSE hookInbox
  /\ UNCHANGED <<outbox, inputVars, displayVars, engineVars, connectionVars,
                 hookMounted, hookEffect, hookListeners, hookVectors,
                 hookLastUpdated, hookConnected, hookError, coreVars>>

\* The database rejects the oldest write of the hook: the promise of set() is
\* rejected and its catch sets the error; the record stays as it is.
HookWriteRejected ==
  /\ hookOutbox # <<>>
  /\ hookOutbox' = Tail(hookOutbox)
  /\ hookError' = [hookError EXCEPT ![WriteHook] = "write error"]
  /\ UNCHANGED <<hookMounted, hookEffect, hookListeners, hookInbox,
                 hookVectors, hookLastUpdated, hookConnected, connectionVars,
                 inputVars, channelVars, displayVars, engineVars, coreVars>>

-----------------------------------------------------------------------------
(* Mounting, initialisation and unmounting of the four components, and the *)
(* writes of useSyncedVectorsWrite while it is in use                      *)

NextListeners ==
  \/ InputInitDone
  \/ InputInitFail
  \/ InputUnmount
  \/ \E d \in Displays : DisplayInitDone(d)
  \/ \E d \in Displays : DisplayInitFail(d)
  \/ \E d \in Displays : DisplayUnmount(d)
  \/ \E h \in Hooks : HookEffect(h)
  \/ \E h \in Hooks : HookEffectFail(h)
  \/ \E h \in Hooks : HookUnmount(h)
  \/ \E newVectors \in HookWrites, refThrows \in BOOLEAN :
        HookSetVectors(newVectors, refThrows)
  \/ HookWriteApply
  \/ HookWriteRejected

SpecListeners == Init /\ [][NextListeners]_vars

-----------------------------------------------------------------------------
(* The readers of sabit/current: ScorePage and useSyncedVectorsRead        *)

NextReaders ==
  \/ \E rec \in ChannelRecords : ChannelSet(rec)
  \/ \E d \in Displays : DisplayInitDone(d)
  \/ \E d \in Displays : Deliver(d)
  \/ HookEffect(ReadHook)
  \/ HookDeliver
  \/ \E val \in BOOLEAN : HookConnectedChange(ReadHook, val)
  \/ HookReadError

SpecReaders == Init /\ [][NextReaders]_vars

-----------------------------------------------------------------------------
(* fluidic-core.tsx: calculateRecipe of RecipeDisplay                      *)

BASE_CAPACITY == 45

\* A component of a vector as a whole number of thousandths.
Thousandths(x) == x \div (FP \div 1000)

\* INGREDIENTS of fluidic-core.tsx in declaration order; the weights of
\* vectorInfluence in tenths.
CoreIngredients ==
  << [name |-> "London Dry Gin", shortName |-> "Gin", category |-> "base",
      baseAmount |-> 30, vectorInfluence |-> [A |-> 3, T |-> 2, I |-> 2],
      unit |-> "ml"],
     [name |-> "Bourbon Whiskey", shortName |-> "Bourbon", category |-> "base",
      baseAmount |-> 15, vectorInfluence |-> [S |-> 3, B |-> 2, I |-> 3],
      unit |-> "ml"],
     [name |-> "Monin Syrup", shortName |-> "Syrup", category |-> "modifier",
      baseAmount |-> 15, vectorInfluence |-> [S |-> 8, T |-> 1],
      unit |-> "ml"],
     [name |-> "Fresh Lemon", shortName |-> "Lemon", category |-> "modifier",
      baseAmount |-> 20, vectorInfluence |-> [A |-> 7, T |-> 2],
      unit |-> "ml"],
     [name |-> "Aromatic Bitters", shortName |-> "Bitters", category |-> "accent",
      baseAmount |-> 2, vectorInfluence |-> [B |-> 6, I |-> 3],
      unit |-> "dsh"],
     [name |-> "Soda Water", shortName |-> "Soda", category |-> "accent",
      baseAmount |-> 30, vectorInfluence |-> [T |-> 5, A |-> 1],
      unit |-> "ml"] >>

\* influence += vecValue * weight over the ingredient's active vectors, in
\* ten-thousandths
Influence(ingredient, vectors) ==
  LET weights == ingredient.vectorInfluence
      term(key) == IF key \in DOMAIN weights /\ vectors[key] > 0
                   THEN Thousandths(vectors[key]) * weights[key]
                   ELSE 0
  IN  term("S") + term("A") + term("B") + term("I") + term("T")

\* hasActiveVector
HasActiveVector(ingredient, vectors) ==
  \E key \in DOMAIN ingredient.vectorInfluence : vectors[key] > 0

\* The amount of an ingredient, times 10, as the fraction <<numerator,
\* denominator>>.  Base spirits: maxBaseTotal = BASE_CAPACITY * I, shared by
\* bourbonRatio = B / (B + T + 0.001), or 0.33 when B and T are both 0, and
\* ginRatio = 1 - bourbonRatio.  The others: baseAmount * Math.min(influence /
\* 0.8, 1).
AmountTimes10(ingredient, vectors) ==
  LET I == Thousandths(vectors.I)
      B == Thousandths(vectors.B)
      T == Thousandths(vectors.T)
      divisor == B + T + 1
      capped == IF Influence(ingredient, vectors) > 8000
                THEN 8000 ELSE Influence(ingredient, vectors)
  IN  IF ingredient.category = "base"
      THEN IF ingredient.shortName = "Gin"
           THEN IF B > 0 \/ T > 0
                THEN <<BASE_CAPACITY * I * (T + 1), 100 * divisor>>
                ELSE <<BASE_CAPACITY * I * 67, 100 * 100>>
           ELSE IF B > 0 \/ T > 0
                THEN <<BASE_CAPACITY * I * B, 100 * divisor>>
                ELSE <<BASE_CAPACITY * I * 33, 100 * 100>>
      ELSE <<10 * ingredient.baseAmount * capped, 8000>>

\* Math.round(amount * 10) for an amount that is not negative
MathRound(fraction) == (2 * fraction[1] + fraction[2]) \div (2 * fraction[2])

\* The amount lies exactly half way between two tenths, or exactly at 0.1.
HalfWay(fraction) ==
  \/ (2 * fraction[1]) % (2 * fraction[2]) = fraction[2]
  \/ fraction[1] = fraction[2]

\* the loop of calculateRecipe from ingredient k on: an ingredient with no
\* active vector is skipped, one with amount > 0.1 is pushed with its amount
\* rounded to a tenth (kept as the number of tenths)
RECURSIVE RecipeFrom(_, _)
RecipeFrom(vectors, k) ==
  IF k > Len(CoreIngredients) THEN <<>>
  ELSE LET ingredient == CoreIngredients[k]
           fraction == AmountTimes10(ingredient, vectors)
       IN  IF HasActiveVector(ingredient, vectors) /\ fraction[1] > fraction[2]
           THEN <<[name |-> ingredient.name,
                   shortName |-> ingredient.shortName,
                   amount |-> MathRound(fraction),
                   unit |-> ingredient.unit,
                   category |-> ingredient.category]>>
                \o RecipeFrom(vectors, k + 1)
           ELSE RecipeFrom(vectors, k + 1)

calculateRecipe(vectors) == RecipeFrom(vectors, 1)

\* recipe.filter(item => item.category === "base")
\*       .reduce((sum, item) => sum + item.amount, 0), in tenths
RECURSIVE SumBase(_, _)
SumBase(items, k) ==
  IF k > Len(items) THEN 0
  ELSE (IF items[k].category = "base" THEN items[k].amount ELSE 0)
       + SumBase(items, k + 1)

totalBase(vectors) == SumBase(calculateRecipe(vectors), 1)

\* The values the components of the vectors prop are drawn from: 0, 0.001,
\* 0.002, 0.5 and 1.
PanelValues ==
  {0, FP \div 1000, 2 * (FP \div 1000), FP \div 2, FP}

\* The code computes the ratios and influence / 0.8 in IEEE-754 doubles, which
\* the fractions above do not carry.  Where a modifier's or an accent's amount
\* is mathematically half way between two tenths, or a base spirit's is under
\* the literal ratio 0.33, the rounding of the doubles decides the tenth, so
\* such vectors are left out of the vectors drawn below.
RecipeRoundingDecides(vectors) ==
  \E k \in 1..Len(CoreIngredients) :
     /\ HasActiveVector(CoreIngredients[k], vectors)
     /\ HalfWay(AmountTimes10(CoreIngredients[k], vectors))
     /\ \/ CoreIngredients[k].category # "base"
        \/ vectors.B = 0 /\ vectors.T = 0

PanelVectors ==
  {v \in [S : {0, FP}, A : {0, FP},
          B : PanelValues \ {2 * (FP \div 1000), FP},
          I : {0, FP \div 2, FP},
          T : PanelValues \ {FP \div 1000, FP}] :
     ~RecipeRoundingDecides(v)}

-----------------------------------------------------------------------------
(* fluidic-core.tsx: the animation loop of FluidicCore                     *)

MaxFrames == 4

\* A cleanup that cancels nothing.
CleanupKeepsFrame(frames) == frames

\* cancelAnimationFrame(animationRef.current), when the effect that ran last
\* returned its cleanup
Cleanup(frames) ==
  IF hasCleanup THEN frames \ {animationRef} ELSE frames

\* the parent renders the components with a new vectors object, of another
\* value or of the same: the effect's dependencies are compared by identity
CoreVectorsChange(v) ==
  /\ coreMounted
  /\ coreVectors' = v
  /\ effectPending' = TRUE
  /\ UNCHANGED <<coreMounted, hasCleanup, coreSize, pendingFrames,
                 cancelledFrames, nextFrame, animationRef, timeRef,
                 connectionVars, hookVars, inputVars, channelVars,
                 displayVars, engineVars>>

\* the container is resized
CoreResize(size) ==
  /\ coreMounted
  /\ size # coreSize
  /\ coreSize' = size
  /\ UNCHANGED <<coreVectors, coreMounted, effectPending, hasCleanup,
                 pendingFrames, cancelledFrames, nextFrame, animationRef,
                 timeRef, connectionVars, hookVars, inputVars, channelVars,
                 displayVars, engineVars>>

\* React runs the cleanup of the effect that ran last and then the effect:
\* it returns early for a container of width 0; otherwise it calls animate(),
\* which draws, requests the next frame and stores its id, and returns the
\* cleanup
CoreEffect ==
  /\ coreMounted
  /\ effectPending
  /\ effectPending' = FALSE
  /\ cancelledFrames' = cancelledFrames \cup (pendingFrames \ Cleanup(pendingFrames))
  /\ IF coreSize = 0
     THEN /\ hasCleanup' = FALSE
          /\ pendingFrames' = Cleanup(pendingFrames)
          /\ UNCHANGED <<nextFrame, animationRef, timeRef>>
     ELSE /\ nextFrame <= MaxFrames
          /\ hasCleanup' = TRUE
          /\ timeRef' = timeRef + 1
          /\ pendingFrames' = Cleanup(pendingFrames) \cup {nextFrame}
          /\ animationRef' = nextFrame
          /\ nextFrame' = nextFrame + 1
  /\ UNCHANGED <<coreVectors, coreMounted, coreSize, connectionVars, hookVars,
                 inputVars, channelVars, displayVars, engineVars>>

\* the browser runs a scheduled frame callback: animate() draws, requests the
\* next frame and stores its id
CoreFrame(id) ==
  /\ id \in pendingFrames
  /\ nextFrame <= MaxFrames
  /\ timeRef' = timeRef + 1
  /\ pendingFrames' = (pendingFrames \ {id}) \cup {nextFrame}
  /\ animationRef' = nextFrame
  /\ nextFrame' = nextFrame + 1
  /\ UNCHANGED <<coreVectors, coreMounted, effectPending, hasCleanup, coreSize,
                 cancelledFrames, connectionVars, hookVars, inputVars,
                 channelVars, displayVars, engineVars>>

\* FluidicCore unmounts: React runs the cleanup of the effect that ran last
CoreUnmount ==
  /\ coreMounted
  /\ coreMounted' = FALSE
  /\ effectPending' = FALSE
  /\ hasCleanup' = FALSE
  /\ pendingFrames' = Cleanup(pendingFrames)
  /\ cancelledFrames' = cancelledFrames \cup (pendingFrames \ Cleanup(pendingFrames))
  /\ UNCHANGED <<coreVectors, coreSize, nextFrame, animationRef, timeRef,
                 connectionVars, hookVars, inputVars, channelVars,
                 displayVars, engineVars>>

NextCore ==
  \/ \E v \in PanelVectors : CoreVectorsChange(v)
  \/ \E size \in CoreSizes : CoreResize(size)
  \/ CoreEffect
  \/ \E id \in 1..MaxFrames : CoreFrame(id)
  \/ CoreUnmount

SpecCore == Init /\ [][NextCore]_vars

-----------------------------------------------------------------------------
(* Claims about the engine, checked under SpecEngine                       *)

ZeroInput == SABIT(0, 0, 0, 0, 0)

\* The position of a name in the catalog, and the unrounded amount allocated
\* to it for the latest input.
CatalogIndex(name) == CHOOSE k \in 1..NIngredients : INGREDIENTS[k].name = name
AllocatedTo(am, name) == am[CatalogIndex(name)].ml

RECURSIVE SumMl(_, _)
SumMl(items, k) ==
  IF k > Len(items) THEN 0 ELSE items[k].ml + SumMl(items, k + 1)

Listed(name) ==
  \E p \in 1..Len(engineResult.recipe) : engineResult.recipe[p].name = name

\* C1: for every input whose five components lie in [0,1] the engine returns a
\* result whose total volume lies in [60.0, 150.0].
C1_VolumeInRange ==
  engineCalled /\ InRange(engineInput) =>
    /\ V_BASE * 10 <= engineResult.totalVolume
    /\ engineResult.totalVolume <= (V_BASE + V_RANGE) * 10

C1_Witness ==
  /\ engineCalled
  /\ InRange(engineInput)
  /\ engineInput.t = FP \div 2
  /\ engineInput.s = FP
  /\ engineResult.totalVolume = 1050

\* The input with every component clamped to [0,1].
Clamp(x) == IF x < 0 THEN 0 ELSE IF x > FP THEN FP ELSE x
Clamped(input) ==
  SABIT(Clamp(input.s), Clamp(input.a), Clamp(input.b), Clamp(input.i),
        Clamp(input.t))

\* C2: the engine clamps every component to [0,1] before use: the result for an
\* input is the result for the clamped input, so the total volume stays in
\* [60.0, 150.0] for any input.
C2_ClampedBeforeUse ==
  engineCalled =>
    /\ engineResult = calculateDynamicRecipe(Clamped(engineInput))
    /\ V_BASE * 10 <= engineResult.totalVolume
    /\ engineResult.totalVolume <= (V_BASE + V_RANGE) * 10

\* C3: for any input the unfiltered, unrounded amounts of the 15 ingredients add
\* up to the total volume, within the truncation of the arithmetic (one unit of
\* 10^-6 ml per share and per addition).
C3_AmountsSumToVolume ==
  engineCalled =>
    Abs(SumMl(Amounts(engineInput), 1) - totalVolume(engineInput))
      <= 2 * NIngredients

C3_Witness ==
  /\ engineCalled
  /\ engineInput.t = FP
  /\ engineInput.s = FP \div 2
  /\ Len(engineResult.recipe) < NIngredients
  /\ LET am == Amounts(engineInput)
     IN  /\ \E k \in 1..NIngredients : 0 < am[k].ml /\ am[k].ml < MIN_POUR * FP
         /\ SumMl(am, 1) > (V_BASE + V_RANGE) * FP - 2 * NIngredients

\* C4: an ingredient is in the returned list if and only if its unrounded
\* amount is at least 1.0.
C4_ListedIffPoured ==
  engineCalled =>
    LET am == Amounts(engineInput)
    IN  \A k \in 1..NIngredients :
           Listed(INGREDIENTS[k].name) <=> am[k].ml >= MIN_POUR * FP

C4_Witness ==
  /\ engineCalled
  /\ LET am == Amounts(engineInput)
     IN  \E j, k \in 1..NIngredients :
            /\ Listed(INGREDIENTS[j].name)
            /\ ~Listed(INGREDIENTS[k].name)
            /\ am[k].ml > 0
            /\ am[j].ml < 2 * FP

\* C5: the returned list is ordered by unrounded amount, largest first, and two
\* listed ingredients with equal amounts keep their catalog order.
C5_SortedStable ==
  engineCalled =>
    LET am == Amounts(engineInput)
    IN  \A p, q \in 1..Len(engineResult.recipe) :
           p < q =>
             LET np == engineResult.recipe[p].name
                 nq == engineResult.recipe[q].name
             IN  /\ AllocatedTo(am, np) >= AllocatedTo(am, nq)
                 /\ AllocatedTo(am, np) = AllocatedTo(am, nq)
                      => CatalogIndex(np) < CatalogIndex(nq)

C5_Witness ==
  /\ engineCalled
  /\ engineInput # ZeroInput
  /\ LET am == Amounts(engineInput)
     IN  \E p, q, r \in 1..Len(engineResult.recipe) :
            /\ p < q /\ q < r
            /\ CatalogIndex(engineResult.recipe[p].name)
                 > CatalogIndex(engineResult.recipe[q].name)
            /\ AllocatedTo(am, engineResult.recipe[q].name)
                 = AllocatedTo(am, engineResult.recipe[r].name)

\* C6: the total volume is 60 + 90 * T: 60.0 at T = 0 and 150.0 at T = 1, and an
\* invocation that changes S, A, B or I with T held fixed returns the same total
\* volume.
C6_VolumeFromTextureAlone ==
  /\ [](engineCalled =>
          /\ engineResult.totalVolume
               = ToFixed1(V_BASE * FP + V_RANGE * engineInput.t)
          /\ engineInput.t = 0 => engineResult.totalVolume = 600
          /\ engineInput.t = FP => engineResult.totalVolume = 1500)
  /\ [][engineCalled /\ engineInput'.t = engineInput.t
          => engineResult'.totalVolume = engineResult.totalVolume]_vars

C6_Witness ==
  /\ engineCalled
  /\ engineInput.t = FP
  /\ engineInput.s = FP
  /\ engineInput.b = FP \div 2
  /\ engineResult.totalVolume = 1500

\* C10: for the all-zero input the engine returns total volume 60.0 and all 15
\* catalog ingredients at 4.0 ml each, in catalog order.
C10_ZeroInputUniform ==
  engineCalled /\ engineInput = ZeroInput =>
    /\ engineResult.totalVolume = 600
    /\ Len(engineResult.recipe) = NIngredients
    /\ \A k \in 1..NIngredients :
          engineResult.recipe[k] = [name |-> INGREDIENTS[k].name, ml |-> 40]

C10_Witness ==
  /\ engineCalled
  /\ engineInput = ZeroInput
  /\ Len(engineResult.recipe) = 15

-----------------------------------------------------------------------------
(* Claims about the surfaces and the channel, checked under Spec           *)

\* The five axis values of a record.
VectorOf(data) ==
  [S |-> data.S, A |-> data.A, B |-> data.B, I |-> data.I, T |-> data.T]

\* The value the radar emits for a handle dragged to the end of its axis.
RadarMaximum == calculateValueFromPosition(maxRadius)

\* The channel has delivered the most recent write to Display Surface d.
Delivered(d) ==
  /\ mounted[d]
  /\ "sabit" \in subscribed[d]
  /\ server.seq > 0
  /\ outbox = <<>>
  /\ inbox[d] = <<>>

\* C7: the record the Input Surface writes holds the vector on the 0-100
\* scale, so that once a Display Surface has the latest write, an axis the
\* radar has at its maximum reaches the engine as 1.0: with Texture at the
\* maximum the displayed total volume is 150.0.
C7_DisplayRepresentationWritten ==
  \A d \in Displays :
     Delivered(d) /\ changes = server.seq /\ inputVectors.T = RadarMaximum =>
       /\ server.data.T = DISPLAY_SCALE * RadarMaximum
       /\ vectorsToSABIT(displayVectors[d]).t = FP
       /\ recipe(d).totalVolume = (V_BASE + V_RANGE) * 10

\* C8: once the channel has delivered the most recent write, every mounted
\* Display Surface shows the vector of that write (the Input Surface's vector
\* when every change was written) with the time of that write; its recipe is
\* recipe(d), the engine's result for the vector shown.  The write a Display
\* Surface shows is never replaced by an earlier one.
C8_LastWriteWins ==
  /\ [](\A d \in Displays :
          Delivered(d) =>
            /\ shown[d] = server.seq
            /\ displayVectors[d] = VectorOf(server.data)
            /\ lastUpdated[d] = server.data.timestamp
            /\ changes = server.seq => displayVectors[d] = inputVectors)
  /\ [][\A d \in Displays : shown'[d] >= shown[d]]_vars

\* Both Display Surfaces have the second of two writes, and show its recipe.
C8_Witness ==
  /\ \A d \in Displays : Delivered(d) /\ shown[d] = 2
  /\ inputVectors.S = FP \div 2
  /\ inputVectors.T = FP
  /\ \A d \in Displays :
        /\ displayVectors[d] = inputVectors
        /\ recipe(d) = calculateDynamicRecipe(vectorsToSABIT(inputVectors))
        /\ Len(recipe(d).recipe) = NIngredients

\* C9 as stated: every change of the vector on the Input Surface issues a write
\* of the new vector and a timestamp, at any time after mount.
C9_EveryChangeWritten ==
  [][changes' = changes + 1 =>
       /\ Len(outbox') = Len(outbox) + 1
       /\ VectorOf(outbox'[Len(outbox')].data) = inputVectors'
       /\ outbox'[Len(outbox')].data.timestamp = clock']_vars

\* C9 as the code has it: a change made once firebaseRef.current is set issues a
\* write of the new vector and a reading of the clock; a change made before that (the
\* initialisation still pending, or failed, or ended after unmount) changes the
\* local vector only and writes nothing.
C9_ChangeWrittenOnceInitialised ==
  [][changes' = changes + 1 =>
       IF firebaseRef
       THEN /\ Len(outbox') = Len(outbox) + 1
            /\ SubSeq(outbox', 1, Len(outbox)) = outbox
            /\ VectorOf(outbox'[Len(outbox')].data) = inputVectors'
            /\ outbox'[Len(outbox')].data.timestamp = clock'
            /\ clock' \in ClockReadings
       ELSE outbox' = outbox /\ clock' = clock]_vars

\* Of two changes the first, made before the initialisation ended, was not
\* written and the second is in flight.
C9_Witness ==
  /\ firebaseRef
  /\ changes = 2
  /\ Len(outbox) = 1
  /\ server.seq = 0
  /\ VectorOf(outbox[1].data) = inputVectors
  /\ inputVectors.S = FP
  /\ inputVectors.T = FP \div 2

-----------------------------------------------------------------------------
(* Further claims about the engine and the catalog, checked under          *)
(* SpecEngine                                                              *)

\* The input with one axis at 1.0 and the others at 0.
UnitInput(axis) == [SABIT(0, 0, 0, 0, 0) EXCEPT ![axis] = FP]

\* C11: for S = 1, A = B = I = T = 0 the total volume is 60.0, the entry with
\* S-component 1.0 (Simple Syrup) is first in the list with more than half of
\* the 60 ml, and every entry with S-component 0 has less than 1.0 ml and is
\* not in the list.
C11_SweetScenario ==
  engineCalled /\ engineInput = UnitInput("s") =>
    LET am == Amounts(engineInput)
    IN  /\ engineResult.totalVolume = V_BASE * 10
        /\ Len(engineResult.recipe) >= 1
        /\ INGREDIENTS[CatalogIndex(engineResult.recipe[1].name)].s = CatScale
        /\ engineResult.recipe[1].name = "Simple Syrup"
        /\ 2 * AllocatedTo(am, "Simple Syrup") > V_BASE * FP
        /\ 2 * engineResult.recipe[1].ml > V_BASE * 10
        /\ \A k \in 1..NIngredients :
              INGREDIENTS[k].s = 0 =>
                am[k].ml < MIN_POUR * FP /\ ~Listed(INGREDIENTS[k].name)

C11_Witness ==
  /\ engineCalled
  /\ engineInput = UnitInput("s")
  /\ Len(engineResult.recipe) > 1
  /\ \E k \in 1..NIngredients : INGREDIENTS[k].s = 0

\* The ingredient listed first has the strictly highest inner product with the
\* input and the largest amount, and its value on the axis is `top`.
TopOnAxis(axis, top) ==
  LET am == Amounts(engineInput)
      first == CatalogIndex(engineResult.recipe[1].name)
  IN  /\ INGREDIENTS[first][axis] = top
      /\ \A k \in 1..NIngredients :
            k # first =>
              /\ dotProduct(engineInput, INGREDIENTS[k])
                   < dotProduct(engineInput, INGREDIENTS[first])
              /\ am[k].ml < am[first].ml

\* C12 as stated: for each of the five axes, the input with that axis at 1.0
\* and the others at 0 gives the strictly highest score to one ingredient whose
\* value on that axis is 1.0, and that ingredient is listed first with the
\* largest share.
C12_AxisMaximumEveryAxis ==
  \A axis \in {"s", "a", "b", "i", "t"} :
     engineCalled /\ engineInput = UnitInput(axis) =>
       Len(engineResult.recipe) >= 1 /\ TopOnAxis(axis, CatScale)

\* C12 as the catalog has it: the above holds for S, A, B and T; for I the
\* ingredient with the strictly highest score, listed first with the largest
\* share, is Gin, whose Intensity is 0.95.
C12_AxisMaximum ==
  /\ \A axis \in {"s", "a", "b", "t"} :
        engineCalled /\ engineInput = UnitInput(axis) =>
          Len(engineResult.recipe) >= 1 /\ TopOnAxis(axis, CatScale)
  /\ engineCalled /\ engineInput = UnitInput("i") =>
        /\ Len(engineResult.recipe) >= 1
        /\ TopOnAxis("i", 95)
        /\ engineResult.recipe[1].name = "Gin (Tanqueray)"

C12_Witness ==
  /\ engineCalled
  /\ engineInput = UnitInput("i")
  /\ Len(engineResult.recipe) > 1
  /\ engineResult.recipe[1].ml > engineResult.recipe[2].ml

\* C13 as stated: on each of the five axes some entry of the catalog an
\* invocation reads has exactly 1.0.
C13_ReferenceOnEveryAxis ==
  engineCalled =>
    \A axis \in {"s", "a", "b", "i", "t"} :
       \E k \in 1..NIngredients : INGREDIENTS[k][axis] = CatScale

\* C13 as the catalog has it: on S, A, B and T some entry has exactly 1.0; on I
\* no entry has 1.0 and the largest value is 0.95; every value is in [0,1].
C13_ReferenceOnAxes ==
  engineCalled =>
    /\ \A axis \in {"s", "a", "b", "t"} :
          \E k \in 1..NIngredients : INGREDIENTS[k][axis] = CatScale
    /\ \A k \in 1..NIngredients : INGREDIENTS[k].i <= 95
    /\ \E k \in 1..NIngredients : INGREDIENTS[k].i = 95
    /\ \A k \in 1..NIngredients, axis \in {"s", "a", "b", "i", "t"} :
          0 <= INGREDIENTS[k][axis] /\ INGREDIENTS[k][axis] <= CatScale

C13_Witness ==
  /\ engineCalled
  /\ engineInput = UnitInput("t")
  /\ engineResult.recipe[1].name = "Soda"
  /\ INGREDIENTS[CatalogIndex("Soda")].t = CatScale

-----------------------------------------------------------------------------
(* Further claims about the surfaces and the channel, checked under Spec   *)

\* Display Surface d takes this step by applying the snapshot at the head of
\* its inbox.
Applies(d) ==
  /\ "sabit" \in subscribed[d]
  /\ inbox[d] # <<>>
  /\ ~IsNull(Head(inbox[d]).data)
  /\ mounted[d]
  /\ mounted'[d]
  /\ inbox'[d] = Tail(inbox[d])

\* The five axis values of a record, 0 for each one that is missing.
AxisValues(data) == [key \in Keys |-> IF key \in DOMAIN data THEN data[key] ELSE 0]

\* The Display Surface shows the record that lacks A, B, I and the timestamp.
ShowsPartial(d) ==
  /\ mounted[d]
  /\ shown[d] = 0
  /\ lastUpdated[d] = 0
  /\ displayVectors[d] = [S |-> PartialRecord.S, A |-> 0, B |-> 0, I |-> 0,
                          T |-> PartialRecord.T]

\* C14: when a record arrives with some of the five axis fields missing, the
\* Display Surface takes 0 for each missing component and the record's value
\* for each present one, so the engine is given five numbers and returns a
\* recipe for them.
C14_MissingFieldsDefault ==
  /\ [][\A d \in Displays :
          Applies(d) =>
            \A key \in Keys :
               displayVectors'[d][key] = AxisValues(Head(inbox[d]).data)[key]]_vars
  /\ [](\A d \in Displays :
          ShowsPartial(d) =>
            /\ vectorsToSABIT(displayVectors[d])
                 = SABIT(PartialRecord.S \div DISPLAY_SCALE, 0, 0, 0,
                         PartialRecord.T \div DISPLAY_SCALE)
            /\ DOMAIN vectorsToSABIT(displayVectors[d]) = {"s", "a", "b", "i", "t"}
            /\ InRange(vectorsToSABIT(displayVectors[d])))

C14_Witness ==
  /\ server.data = PartialRecord
  /\ \E d \in Displays :
        /\ ShowsPartial(d)
        /\ inbox[d] = <<>>
        /\ displayVectors[d].A = 0
        /\ displayVectors[d].S = FP \div 2
        /\ recipe(d).totalVolume = 609
        /\ Len(recipe(d).recipe) = NIngredients

-----------------------------------------------------------------------------
(* Claims about calls of the engine module, checked under SpecCalls        *)

Conversions == {k \in 1..Len(callLog) : callLog[k].fn = "vectorsToSABIT"}
Invocations == {k \in 1..Len(callLog) : callLog[k].fn = "calculateDynamicRecipe"}

\* C15: vectorsToSABIT returns each display component divided by 100, each
\* from its own component and without clamping: 250 gives 2.5 and -100 gives
\* -1, all zeros give all zeros and all 100 gives all ones.
C15_DividesBy100 ==
  \A k \in Conversions :
     LET arg == callLog[k].arg
         ret == callLog[k].ret
     IN  /\ DOMAIN ret = {"s", "a", "b", "i", "t"}
         /\ ret.s * DISPLAY_SCALE = arg.S
         /\ ret.a * DISPLAY_SCALE = arg.A
         /\ ret.b * DISPLAY_SCALE = arg.B
         /\ ret.i * DISPLAY_SCALE = arg.I
         /\ ret.t * DISPLAY_SCALE = arg.T
         /\ arg.S = 250 * FP => ret.s = (5 * FP) \div 2
         /\ arg.A = 0 - 100 * FP => ret.a = 0 - FP
         /\ arg = DEFAULT_VALUES => ret = SABIT(0, 0, 0, 0, 0)
         /\ (\A key \in Keys : arg[key] = 100 * FP) => ret = SABIT(FP, FP, FP, FP, FP)

C15_Witness ==
  /\ Len(callLog) = 3
  /\ Conversions = {1, 2, 3}
  /\ callLog[1].arg = DEFAULT_VALUES
  /\ callLog[2].arg.S = 250 * FP
  /\ callLog[2].ret.a < 0
  /\ callLog[3].ret = SABIT(FP, FP, FP, FP, FP)

\* C17: two invocations of calculateDynamicRecipe with the same input return
\* the same total volume and the same recipe list, whatever was called in
\* between and whoever called: an invocation computes from its argument and
\* from the module's array, and the array is at every invocation what it was
\* when the module was loaded, so the result is the function of the argument
\* alone that any Display Surface computes from the same vector.
C17_Deterministic ==
  /\ \A j, k \in Invocations :
        callLog[j].arg = callLog[k].arg =>
          /\ callLog[j].ret.totalVolume = callLog[k].ret.totalVolume
          /\ callLog[j].ret.recipe = callLog[k].ret.recipe
  /\ \A k \in Invocations :
        callLog[k].ret = calculateDynamicRecipe(callLog[k].arg)

\* The same input is given to the engine twice, with a call in between; the
\* module's array is as it was loaded.
C17_Witness ==
  /\ Len(callLog) = 3
  /\ Invocations = {1, 3}
  /\ callLog[1].arg = callLog[3].arg
  /\ callLog[2].arg # callerVectors
  /\ callLog[1].ret = callLog[3].ret
  /\ Len(callLog[1].ret.recipe) = NIngredients
  /\ catalog = INGREDIENTS

\* C18: a call changes no state: the catalog keeps its entries, their order and
\* their vectors, and the objects the caller passed are as they were.
C18_NoStateChange ==
  /\ [](/\ catalog = INGREDIENTS
        /\ \A k \in Conversions :
              callLog[k].ret = vectorsToSABIT(callLog[k].arg))
  /\ [][/\ catalog' = catalog
         /\ Len(callLog') > Len(callLog) =>
              /\ callerVectors' = callerVectors
              /\ callLog'[Len(callLog')].arg
                   = IF callLog'[Len(callLog')].fn = "vectorsToSABIT"
                     THEN callerVectors' ELSE callerInput'
              /\ callLog'[Len(callLog')].fn = "calculateDynamicRecipe"
                   => callerInput' = callerInput]_vars

C18_Witness ==
  /\ Len(callLog) = 3
  /\ Invocations = {2, 3}
  /\ callLog[2].arg.t < 0
  /\ callLog[3].arg = callLog[2].arg
  /\ callerInput = callLog[3].arg
  /\ catalog = INGREDIENTS

-----------------------------------------------------------------------------
(* Rounding, checked under SpecEngine                                      *)

\* C16: rounding to one decimal is the last step: the listed amounts are the
\* rounded shares of the unrounded softmax, the total is the rounded total, an
\* ingredient is kept by its unrounded amount (one that only rounds up to 1.0
\* is not listed), and listed ingredients are ordered by unrounded amount (also
\* where their rounded amounts are equal).
C16_RoundingLast ==
  engineCalled =>
    LET am == Amounts(engineInput)
        list == engineResult.recipe
    IN  /\ engineResult.totalVolume = ToFixed1(totalVolume(engineInput))
        /\ \A p \in 1..Len(list) :
              /\ list[p].ml = ToFixed1(AllocatedTo(am, list[p].name))
              /\ AllocatedTo(am, list[p].name) >= MIN_POUR * FP
        /\ \A k \in 1..NIngredients :
              am[k].ml < MIN_POUR * FP /\ ToFixed1(am[k].ml) >= MIN_POUR * 10
                => ~Listed(INGREDIENTS[k].name)
        /\ \A p, q \in 1..Len(list) :
              p < q /\ list[p].ml = list[q].ml
                => AllocatedTo(am, list[p].name) >= AllocatedTo(am, list[q].name)

\* An amount that rounds to 1.0 is left out of a list of several amounts.
C16_Witness ==
  /\ engineCalled
  /\ LET am == Amounts(engineInput)
         list == engineResult.recipe
     IN  /\ \E k \in 1..NIngredients :
               /\ am[k].ml < MIN_POUR * FP
               /\ ToFixed1(am[k].ml) = MIN_POUR * 10
               /\ ~Listed(INGREDIENTS[k].name)
         /\ \E p, q \in 1..Len(list) :
               /\ p < q
               /\ list[p].ml > list[q].ml
               /\ AllocatedTo(am, list[p].name) > AllocatedTo(am, list[q].name)

-----------------------------------------------------------------------------
(* Timestamp and wholesale replacement                                     *)

\* The timestamps a record can carry in the runs explored.
Timestamps == 0..(MaxChanges + 2)

\* The record with its timestamp replaced.
Restamped(data, ts) ==
  [key \in DOMAIN data \cup {"timestamp"} |->
     IF key = "timestamp" THEN ts ELSE data[key]]

\* The record without its timestamp.
Unstamped(data) == [key \in DOMAIN data \ {"timestamp"} |-> data[key]]

\* C19: the timestamp of a record never influences the recipe. The vector a
\* Display Surface takes from a record is the one it would take from the same
\* record under any other timestamp or none, so the vector the engine is
\* given, the total volume and the recipe are the same; the timestamp only
\* sets the 'last updated' time.
C19_TimestampIgnored ==
  [][\A d \in Displays :
       Applies(d) =>
         LET data == Head(inbox[d]).data
         IN  /\ displayVectors'[d] = AxisValues(Unstamped(data))
             /\ \A ts \in Timestamps :
                   displayVectors'[d] = AxisValues(Restamped(data, ts))
             /\ lastUpdated'[d] =
                   IF "timestamp" \in DOMAIN data /\ data.timestamp # 0
                   THEN data.timestamp ELSE lastUpdated[d]
             /\ \A e \in Displays \ {d} :
                   /\ displayVectors'[e] = displayVectors[e]
                   /\ lastUpdated'[e] = lastUpdated[e]]_vars

\* Two Display Surfaces show records with the same axis values and different
\* timestamps: same vector, same total volume, same recipe, different 'last
\* updated'.
C19_Witness ==
  \E d, e \in Displays :
     /\ mounted[d] /\ mounted[e]
     /\ shown[d] > 0 /\ shown[e] > 0 /\ shown[d] # shown[e]
     /\ lastUpdated[d] # 0 /\ lastUpdated[e] # 0
     /\ lastUpdated[d] # lastUpdated[e]
     /\ displayVectors[d] = displayVectors[e]
     /\ displayVectors[d].T = RadarMaximum
     /\ vectorsToSABIT(displayVectors[d]) = vectorsToSABIT(displayVectors[e])
     /\ recipe(d) = recipe(e)
     /\ Len(recipe(d).recipe) > 0

\* C20: each write replaces the shared record wholesale. A write carries
\* exactly the five axis values of the writer's new vector and a timestamp; the
\* record after the write is the write, whatever the record was before, so an
\* axis that was not dragged holds the writer's value and not the previous
\* record's.
C20_WholesaleReplace ==
  /\ [](\A n \in 1..Len(outbox) :
          DOMAIN outbox[n].data = Keys \cup {"timestamp"})
  /\ [](server.seq > 0 => DOMAIN server.data = Keys \cup {"timestamp"})
  /\ [][Len(outbox') > Len(outbox) =>
          LET write == outbox'[Len(outbox')].data
          IN  /\ VectorOf(write) = inputVectors'
              /\ write.timestamp = clock'
              /\ \A key \in Keys \ {dragging} : write[key] = inputVectors[key]]_vars
  /\ [][server' # server =>
          /\ outbox # <<>>
          /\ server'.data = Head(outbox).data]_vars

\* The record held S = 1.0 and B = 0.5 from an earlier writer; the Input
\* Surface dragged Texture only, and the record now holds S = 0 and B = 0.
C20_Witness ==
  /\ server.seq = 1
  /\ changes = 1
  /\ inputVectors.T = RadarMaximum
  /\ server.data.T = RadarMaximum
  /\ server.data.S = 0 /\ PreviousRecord.S # 0
  /\ server.data.B = 0 /\ PreviousRecord.B # 0
  /\ \E d \in Displays :
        /\ lastUpdated[d] = PreviousRecord.timestamp
        /\ displayVectors[d] = AxisValues(PreviousRecord)

-----------------------------------------------------------------------------
(* The catalog's size and range; monotonicity of the volume                *)

CatalogComponents(ing) == {ing.s, ing.a, ing.b, ing.i, ing.t}

\* C21: the INGREDIENTS catalog has exactly 15 entries, and each of the five
\* components of each entry lies in [0,1].
C21_CatalogSizeAndRange ==
  engineCalled =>
    /\ Len(INGREDIENTS) = 15
    /\ catalog = INGREDIENTS
    /\ \A k \in 1..Len(INGREDIENTS) :
          \A x \in CatalogComponents(INGREDIENTS[k]) : 0 <= x /\ x <= CatScale

\* The engine has used a catalog of 15 entries in which both ends of the range
\* occur.
C21_Witness ==
  /\ engineCalled
  /\ Len(engineResult.recipe) > 0
  /\ Len(catalog) = 15
  /\ \E k \in 1..Len(catalog) : catalog[k].t = CatScale
  /\ \E k \in 1..Len(catalog) : catalog[k].t = 0

\* Texture values to compare the input's with, inside and outside [0,1].
TextureValues == {-FP, 0, FP \div 100, FP \div 2, FP - 1, FP, 2 * FP}

\* C22: of two inputs that differ only in Texture, the one with the larger
\* Texture has a total volume that is not smaller.
C22_VolumeMonotoneInTexture ==
  /\ [](engineCalled =>
          \A v \in TextureValues :
             LET other == ToFixed1(totalVolume([engineInput EXCEPT !.t = v]))
             IN  /\ v >= engineInput.t => other >= engineResult.totalVolume
                 /\ v <= engineInput.t => other <= engineResult.totalVolume)
  /\ [][(/\ engineCalled
         /\ engineInput' = [engineInput EXCEPT !.t = engineInput'.t]
         /\ engineInput'.t >= engineInput.t)
          => engineResult'.totalVolume >= engineResult.totalVolume]_vars

\* The engine has returned 105.0 for Texture 0.5, between the 60.0 of a smaller
\* and the 150.0 of a larger Texture.
C22_Witness ==
  /\ engineCalled
  /\ engineInput.t = FP \div 2
  /\ engineInput.i = FP
  /\ engineResult.totalVolume = 1050
  /\ ToFixed1(totalVolume([engineInput EXCEPT !.t = 0])) = 600
  /\ ToFixed1(totalVolume([engineInput EXCEPT !.t = FP])) = 1500

-----------------------------------------------------------------------------
(* The radar: the values it emits and when it emits them                   *)

\* Pointer positions as projections on the dragged axis, in pixels: from far
\* on the opposite side of the centre to far beyond the end of the axis.
RadarPositions == (0 - 3 * maxRadius)..(3 * maxRadius)

\* A value in [0,1] that is a multiple of 0.01.
RadarValue(x) == 0 <= x /\ x <= FP /\ x % (FP \div 100) = 0

\* C23: every axis value the radar emits through onChange lies in [0,1] and is
\* a multiple of 0.01, wherever the pointer is: beyond the end of the axis or
\* on the opposite side of the centre.
C23_EmittedValuesInRange ==
  /\ [](\A key \in Keys : RadarValue(inputVectors[key]))
  /\ [](\A n \in 1..Len(outbox) :
          \A key \in Keys : RadarValue(outbox[n].data[key]))
  /\ [][changes' # changes =>
          \E p \in Projections :
             /\ inputVectors'[dragging] = calculateValueFromPosition(p)
             /\ RadarValue(inputVectors'[dragging])]_vars
  /\ [][changes = 0 /\ changes' # changes =>
          \A p \in RadarPositions :
             RadarValue(calculateValueFromPosition(p))]_vars

\* Texture was dragged beyond the end of its axis and Sweetness to the
\* opposite side of the centre: the radar emitted 1 and then 0.
C23_Witness ==
  /\ changes = 2
  /\ dragging = "S"
  /\ inputVectors.T = FP
  /\ inputVectors.S = 0
  /\ inputVectors.T = calculateValueFromPosition(maxRadius + maxRadius \div 2)
  /\ inputVectors.S = calculateValueFromPosition(0 - maxRadius \div 4)

\* C24: the radar emits a change only while an axis is dragged, between a
\* pointer-down on that axis and the next pointer-up or pointer-leave; the
\* emitted vector differs from the current one in the dragged axis at most;
\* with no drag active nothing is emitted and the vector stays as it is.
C24_EmitsOnlyDraggedAxis ==
  /\ [][inputVectors' # inputVectors \/ changes' # changes
          \/ Len(outbox') > Len(outbox) =>
          /\ dragging # "none"
          /\ dragging' = dragging
          /\ \A key \in Keys \ {dragging} :
                inputVectors'[key] = inputVectors[key]]_vars
  /\ [][dragging = "none" =>
          /\ inputVectors' = inputVectors
          /\ changes' = changes
          /\ Len(outbox') <= Len(outbox)]_vars
  /\ [][dragging' # dragging =>
          /\ inputVectors' = inputVectors
          /\ changes' = changes]_vars

\* Texture was dragged and released, then Sweetness was dragged: the vector
\* keeps the Texture of the first drag.
C24_Witness ==
  /\ changes = 2
  /\ dragging = "S"
  /\ inputVectors.T = FP \div 2
  /\ inputVectors.S = FP
  /\ inputVectors.A = 0 /\ inputVectors.B = 0 /\ inputVectors.I = 0

-----------------------------------------------------------------------------
(* The recipe list is never empty for inputs in range                      *)

\* recipe.recipe.length === 0: the Display Surface shows 'waiting for recipe'
EmptyStateShown(result) == Len(result.recipe) = 0

\* C25: for every input with all components in [0,1] the returned list is not
\* empty: the ingredient with the highest score gets at least 1.0 ml (at least
\* an even share of the volume), so the Display Surface never shows its empty
\* state for such a vector, the initial all-zero vector included.
C25_RecipeNeverEmpty ==
  engineCalled /\ InRange(engineInput) =>
    LET am == Amounts(engineInput)
    IN  /\ ~EmptyStateShown(engineResult)
        /\ engineResult.recipe[1].ml >= MIN_POUR * 10
        /\ AllocatedTo(am, engineResult.recipe[1].name) >= MIN_POUR * FP
        /\ \A k \in 1..NIngredients :
              AllocatedTo(am, engineResult.recipe[1].name) >= am[k].ml
        /\ AllocatedTo(am, engineResult.recipe[1].name) + 1
             >= totalVolume(engineInput) \div NIngredients
        /\ engineInput = ZeroInput => Len(engineResult.recipe) = NIngredients

\* The smallest volume with the flattest distribution but one: a single small
\* component, most amounts filtered out, the list still not empty.
C25_Witness ==
  /\ engineCalled
  /\ InRange(engineInput)
  /\ engineInput.t = 0
  /\ engineInput.s = FP \div 2
  /\ engineInput.a = 0 /\ engineInput.b = 0 /\ engineInput.i = 0
  /\ Len(engineResult.recipe) > 0
  /\ Len(engineResult.recipe) < NIngredients

-----------------------------------------------------------------------------
(* The Display Surface after its unmount                                   *)

\* The state of Display Surface d that its callbacks set.
DisplayState(d) ==
  <<displayVectors[d], isConnected[d], lastUpdated[d], error[d]>>

\* C26: once a Display Surface has unmounted, no delivery, connection-state
\* change or read error changes its vectors, isConnected, lastUpdated or error,
\* however the unmount interleaves with the asynchronous initialisation and
\* with deliveries; a Display Surface that unmounts before its initialisation
\* completes registers no subscription at all.
C26_UnmountedDisplayUntouched ==
  /\ [][\A d \in Displays :
          ~mounted[d] => DisplayState(d)' = DisplayState(d)]_vars
  /\ [][\A d \in Displays :
          ~mounted[d] => /\ ~mounted'[d]
                         /\ subscribed'[d] = {}
                         /\ inbox'[d] = <<>>]_vars
  /\ [](\A d \in Displays : ~mounted[d] => subscribed[d] = {})

\* One Display Surface unmounted before its initialisation completed and a
\* record has been set since: it shows the defaults.  The other had applied a
\* record and was connected when it unmounted, and a record set later has not
\* reached it.
C26_Witness ==
  \E d, e \in Displays :
     /\ ~mounted[d] /\ ~mounted[e]
     /\ displayInit[d] = "done" /\ displayInit[e] = "done"
     /\ server.seq = MaxWrites
     /\ ~IsNull(server.data)
     /\ displayVectors[d] = DEFAULT_VALUES
     /\ shown[d] = 0 /\ lastUpdated[d] = 0 /\ ~isConnected[d] /\ error[d] = ""
     /\ displayVectors[e] # DEFAULT_VALUES
     /\ displayVectors[e] # AxisValues(server.data)
     /\ isConnected[e]
     /\ shown[e] < server.seq

-----------------------------------------------------------------------------
(* Listeners after unmount; empty snapshots                                *)

\* C27: every listener a component registers while mounted, on sabit/current
\* or on .info/connected, is removed when the component unmounts: the Display
\* Surface, the Input Surface page and both sync hooks hold no listener once
\* unmounted.
C27_ListenersRemovedOnUnmount ==
  /\ \A d \in Displays : ~mounted[d] => subscribed[d] = {}
  /\ \A h \in Hooks : ~hookMounted[h] => hookListeners[h] = {}
  /\ ~inputMounted => inputListeners = {}

\* A delivery of an empty snapshot to Display Surface d.
DeliversNull(d) ==
  /\ "sabit" \in subscribed[d]
  /\ inbox[d] # <<>>
  /\ IsNull(Head(inbox[d]).data)
  /\ inbox'[d] = Tail(inbox[d])

\* A delivery of an empty snapshot to useSyncedVectorsRead.
HookDeliversNull ==
  /\ "sabit" \in hookListeners[ReadHook]
  /\ hookInbox # <<>>
  /\ IsNull(Head(hookInbox).data)
  /\ hookInbox' = Tail(hookInbox)

\* C28: a delivery whose snapshot is empty (the record is null or absent)
\* leaves the reader's vectors and lastUpdated as they are, in ScorePage and in
\* useSyncedVectorsRead: the vector shown before, and so its recipe, remain.
C28_EmptySnapshotIgnored ==
  /\ [][\A d \in Displays :
          DeliversNull(d) =>
            /\ displayVectors'[d] = displayVectors[d]
            /\ lastUpdated'[d] = lastUpdated[d]
            /\ shown'[d] = shown[d]]_vars
  /\ [][HookDeliversNull =>
          /\ hookVectors'[ReadHook] = hookVectors[ReadHook]
          /\ hookLastUpdated' = hookLastUpdated]_vars

\* A record was shown, the key was then removed, and the empty snapshot has
\* been handed to a Display Surface and to the hook: both still show the
\* record.
C28_Witness ==
  /\ server.seq = MaxWrites
  /\ IsNull(server.data)
  /\ hookInbox = <<>>
  /\ hookListeners[ReadHook] = {"sabit", "connected"}
  /\ hookVectors[ReadHook] = AxisValues(LaterRecord)
  /\ hookLastUpdated = LaterRecord.timestamp
  /\ \E d \in Displays :
        /\ mounted[d]
        /\ "sabit" \in subscribed[d]
        /\ inbox[d] = <<>>
        /\ displayVectors[d] = AxisValues(LaterRecord)
        /\ lastUpdated[d] = LaterRecord.timestamp
        /\ shown[d] = MaxWrites - 1
        /\ Len(recipe(d).recipe) > 0


-----------------------------------------------------------------------------
(* Claims about fluidic-core.tsx, checked under SpecCore                   *)

\* C29: in RecipeDisplay, for every vector whose components all lie in
\* [0, 1], the displayed base total, the sum of the rounded Gin and Bourbon
\* amounts of calculateRecipe, is at most BASE_CAPACITY = 45 ml.
C29_BaseWithinCapacity ==
  (\A c \in {"S", "A", "B", "I", "T"} : coreVectors[c] \in 0..FP)
     => totalBase(coreVectors) <= BASE_CAPACITY * 10

\* C30: a FluidicCore instance has at most one animation frame scheduled at
\* any time, and it is the one animationRef holds; when the effect runs again
\* or the component unmounts, every frame pending before is cancelled before a
\* new loop starts; and no frame callback runs once the component unmounted.
C30_SingleAnimationLoop ==
  /\ [](Cardinality(pendingFrames) <= 1)
  /\ [](pendingFrames # {}
          => coreMounted /\ hasCleanup /\ pendingFrames = {animationRef})
  /\ [][((effectPending /\ ~effectPending') \/ (coreMounted /\ ~coreMounted'))
          => pendingFrames \subseteq cancelledFrames']_vars
  /\ [][timeRef' # timeRef => coreMounted /\ coreMounted']_vars

\* A loop ran a frame, was cancelled and restarted for another vector, and the
\* component then unmounted, cancelling the restarted loop as well.
C30_Witness ==
  /\ ~coreMounted
  /\ Cardinality(cancelledFrames) >= 2
  /\ timeRef >= 3
  /\ pendingFrames = {}

=============================================================================
